---- MODULE Spec2Model ----
(***************************************************************************)
(* SwarAI intent routing and multi-task orchestration core:                *)
(* AgentManager.process_command (ai_enhance -> detect_intent ->            *)
(* route_to_agent -> generate_response) and                                *)
(* MultiTaskOrchestrator (detect_multi_task, parse_workflow,               *)
(* execute_workflow).                                                      *)
(*                                                                         *)
(* A Python str that the code inspects (commands, agent inputs, paths) is  *)
(* a tuple of one-character strings, so that len(), strip(), lower(),      *)
(* `kw in s` and re.search are computed on the characters.  Messages the   *)
(* code only passes along are plain TLA+ strings.                          *)
(***************************************************************************)
EXTENDS Integers, Sequences, FiniteSets, TLC

-----------------------------------------------------------------------------
(* Python str operations *)

UpperChars ==
  <<"A","B","C","D","E","F","G","H","I","J","K","L","M","N","O","P","Q","R","S","T","U","V","W","X","Y","Z">>

LowerChars ==
  <<"a","b","c","d","e","f","g","h","i","j","k","l","m","n","o","p","q","r","s","t","u","v","w","x","y","z">>

DigitChars ==
  <<"0","1","2","3","4","5","6","7","8","9">>

Range(f) ==
  {f[k] : k \in DOMAIN f}

WhiteSpace ==
  {" ", "\t", "\n"}

WordChars ==
  Range(UpperChars) \cup Range(LowerChars) \cup Range(DigitChars) \cup {"_"}

LowerChar(c) ==
  IF \E k \in DOMAIN UpperChars : UpperChars[k] = c
  THEN LowerChars[CHOOSE k \in DOMAIN UpperChars : UpperChars[k] = c]
  ELSE c

\* str.lower()
Lower(s) ==
  [i \in 1..Len(s) |-> LowerChar(s[i])]

\* str.strip(): drops the leading and the trailing whitespace
Strip(s) ==
  LET keep == {i \in 1..Len(s) : s[i] \notin WhiteSpace}
  IN IF keep = {} THEN <<>>
     ELSE LET lo == CHOOSE i \in keep : \A j \in keep : i <= j
              hi == CHOOSE i \in keep : \A j \in keep : i >= j
          IN SubSeq(s, lo, hi)

\* kw occurs in s at position i
OccursAt(kw, s, i) ==
  /\ i >= 1
  /\ i + Len(kw) - 1 <= Len(s)
  /\ SubSeq(s, i, i + Len(kw) - 1) = kw

\* Python `kw in s`
Contains(s, kw) ==
  \E i \in 1..(Len(s) + 1) : OccursAt(kw, s, i)

\* any(kw in s for kw in kws)
AnyIn(kws, s) ==
  \E k \in DOMAIN kws : Contains(s, kws[k])

-----------------------------------------------------------------------------
(* Python re: a pattern is a tree; REnds(r, s, i) is the set of positions  *)
(* at which a match of r that starts at position i of s can end.           *)

Lit(w) ==
  [op |-> "lit", w |-> w]

Cls(set) ==
  [op |-> "cls", set |-> set]

AnyChar ==
  [op |-> "any"]

Cat(parts) ==
  [op |-> "cat", parts |-> parts]

Alt(parts) ==
  [op |-> "alt", parts |-> parts]

Star(r) ==
  [op |-> "star", r |-> r]

Plus(r) ==
  Cat(<<r, Star(r)>>)

Opt(r) ==
  Alt(<<r, Lit(<<>>)>>)

\* (w1|w2|...)
AltLit(ws) ==
  Alt([k \in DOMAIN ws |-> Lit(ws[k])])

DotStar ==
  Star(AnyChar)

Spaces ==
  Plus(Cls(WhiteSpace))

OptSpaces ==
  Star(Cls(WhiteSpace))

WordRun ==
  Plus(Cls(WordChars))

Bol ==
  [op |-> "bol"]

Eol ==
  [op |-> "eol"]

WordB ==
  [op |-> "wb"]

IsWordAt(s, i) ==
  i >= 1 /\ i <= Len(s) /\ s[i] \in WordChars

RECURSIVE REnds(_, _, _), CatEnds(_, _, _, _), StarEnds(_, _, _, _)
REnds(r, s, i) ==
  CASE r.op = "lit" -> IF OccursAt(r.w, s, i) THEN {i + Len(r.w)} ELSE {}
    [] r.op = "cls" -> IF i <= Len(s) /\ s[i] \in r.set THEN {i + 1} ELSE {}
    [] r.op = "any" -> IF i <= Len(s) /\ s[i] # "\n" THEN {i + 1} ELSE {}
    [] r.op = "cat" -> CatEnds(r.parts, 1, s, {i})
    [] r.op = "alt" -> UNION {REnds(r.parts[k], s, i) : k \in DOMAIN r.parts}
    [] r.op = "star" -> StarEnds(r.r, s, {i}, {i})
    [] r.op = "bol" -> IF i = 1 THEN {i} ELSE {}
    [] r.op = "eol" -> IF i = Len(s) + 1 \/ (i = Len(s) /\ s[i] = "\n") THEN {i} ELSE {}
    [] r.op = "wb" -> IF IsWordAt(s, i - 1) # IsWordAt(s, i) THEN {i} ELSE {}

CatEnds(parts, k, s, from) ==
  IF k > Len(parts) \/ from = {} THEN from
  ELSE CatEnds(parts, k + 1, s, UNION {REnds(parts[k], s, p) : p \in from})

StarEnds(r, s, frontier, acc) ==
  LET new == (UNION {REnds(r, s, p) : p \in frontier}) \ acc
  IN IF new = {} THEN acc ELSE StarEnds(r, s, new, acc \cup new)

\* re.search(r, s) is not None
Search(r, s) ==
  \E i \in 1..(Len(s) + 1) : REnds(r, s, i) # {}

-----------------------------------------------------------------------------
(* MultiTaskOrchestrator.detect_multi_task *)

multi_task_patterns ==
  << Cat(<<AltLit(<<<<"f","i","n","d">>, <<"s","e","a","r","c","h">>, <<"o","p","e","n">>, <<"g","e","t">>>>), DotStar,
           AltLit(<<<<"f","i","l","e">>, <<"d","o","c","u","m","e","n","t">>, <<"p","d","f">>, <<"p","h","o","t","o">>>>), DotStar,
           AltLit(<<<<"s","e","n","d">>, <<"s","h","a","r","e">>, <<"e","m","a","i","l">>, <<"w","h","a","t","s","a","p","p">>>>)>>),
     Cat(<<AltLit(<<<<"s","e","n","d">>, <<"s","h","a","r","e">>, <<"e","m","a","i","l">>, <<"w","h","a","t","s","a","p","p">>>>), DotStar,
           AltLit(<<<<"f","i","l","e">>, <<"d","o","c","u","m","e","n","t">>, <<"p","d","f">>, <<"p","h","o","t","o">>>>)>>),
     Cat(<<AltLit(<<<<"t","a","k","e">>, <<"c","a","p","t","u","r","e">>>>), DotStar, Lit(<<"s","c","r","e","e","n","s","h","o","t">>), DotStar,
           AltLit(<<<<"s","e","n","d">>, <<"s","h","a","r","e">>, <<"e","m","a","i","l">>, <<"w","h","a","t","s","a","p","p">>>>)>>),
     Cat(<<Lit(<<"s","c","r","e","e","n","s","h","o","t">>), DotStar, AltLit(<<<<"a","n","d">>, <<"t","h","e","n">>>>), DotStar,
           AltLit(<<<<"s","e","n","d">>, <<"s","h","a","r","e">>, <<"e","m","a","i","l">>>>)>>),
     Cat(<<DotStar, Spaces, Lit(<<"a","n","d">>), Spaces, Opt(Cat(<<Lit(<<"t","h","e","n">>), Spaces>>)),
           AltLit(<<<<"s","e","n","d">>, <<"e","m","a","i","l">>, <<"c","a","l","l">>, <<"m","e","s","s","a","g","e">>, <<"w","h","a","t","s","a","p","p">>>>)>>),
     AltLit(<<<<"f","i","r","s","t">>, <<"t","h","e","n">>, <<"a","f","t","e","r"," ","t","h","a","t">>, <<"n","e","x","t">>>>) >>

\* agent_keywords, in the dict's order: filesearch, whatsapp, email, screenshot, phone
agent_keywords ==
  << << <<"f","i","n","d">>, <<"s","e","a","r","c","h">>, <<"f","i","l","e">>, <<"d","o","c","u","m","e","n","t">>, <<"p","d","f">>, <<"p","h","o","t","o">> >>,
     << <<"w","h","a","t","s","a","p","p">>, <<"m","e","s","s","a","g","e">>, <<"s","e","n","d"," ","m","e","s","s","a","g","e">> >>,
     << <<"e","m","a","i","l">>, <<"s","e","n","d"," ","e","m","a","i","l">>, <<"m","a","i","l">> >>,
     << <<"s","c","r","e","e","n","s","h","o","t">>, <<"c","a","p","t","u","r","e"," ","s","c","r","e","e","n">>, <<"t","a","k","e"," ","s","c","r","e","e","n","s","h","o","t">> >>,
     << <<"c","a","l","l">>, <<"p","h","o","n","e">>, <<"d","i","a","l">> >> >>

detected_agents(user_input_lower) ==
  {a \in DOMAIN agent_keywords : AnyIn(agent_keywords[a], user_input_lower)}

\* detect_multi_task that wants exactly two agents' keywords
detect_multi_task_exactly_two(user_input) ==
  LET user_input_lower == Lower(user_input)
  IN \/ \E k \in DOMAIN multi_task_patterns :
          Search(multi_task_patterns[k], user_input_lower)
     \/ Cardinality(detected_agents(user_input_lower)) = 2

detect_multi_task(user_input) ==
  LET user_input_lower == Lower(user_input)
  IN \/ \E k \in DOMAIN multi_task_patterns :
          Search(multi_task_patterns[k], user_input_lower)
     \/ Cardinality(detected_agents(user_input_lower)) >= 2

-----------------------------------------------------------------------------
(* ConversationAgent.is_conversational_input *)

task_patterns ==
  << Cat(<<WordB, AltLit(<<<<"s","e","n","d">>, <<"m","e","s","s","a","g","e">>, <<"t","e","x","t">>, <<"w","h","a","t","s","a","p","p">>>>), Spaces,
           WordRun, Spaces, Lit(<<"t","o">>), WordB>>),
     Cat(<<WordB, AltLit(<<<<"s","e","n","d"," ","w","h","a","t","s","a","p","p">>, <<"w","h","a","t","s","a","p","p"," ","t","o">>, <<"m","e","s","s","a","g","e"," ","t","o">>, <<"t","e","x","t"," ","t","o">>>>),
           WordB>>),
     Cat(<<WordB, AltLit(<<<<"f","i","n","d">>, <<"s","e","a","r","c","h">>, <<"o","p","e","n">>, <<"l","o","c","a","t","e">>>>), Spaces, WordRun>>),
     Cat(<<WordB, AltLit(<<<<"s","h","a","r","e">>, <<"s","e","n","d">>>>), Spaces, WordRun, Spaces,
           AltLit(<<<<"v","i","a">>, <<"o","n">>, <<"t","h","r","o","u","g","h">>>>), Spaces, Lit(<<"w","h","a","t","s","a","p","p">>), WordB>>) >>

OptQuestion ==
  Opt(Lit(<<"?">>))

conversational_patterns ==
  << Cat(<<Bol, OptSpaces,
           AltLit(<<<<"h","i">>, <<"h","e","l","l","o">>, <<"h","e","y">>, <<"g","o","o","d"," ","m","o","r","n","i","n","g">>, <<"g","o","o","d"," ","a","f","t","e","r","n","o","o","n">>,
                    <<"g","o","o","d"," ","e","v","e","n","i","n","g">>>>), OptSpaces, Eol>>),
     Cat(<<Bol, OptSpaces, AltLit(<<<<"h","o","w"," ","a","r","e"," ","y","o","u">>, <<"w","h","a","t","'","s"," ","u","p">>, <<"h","o","w","'","s"," ","i","t"," ","g","o","i","n","g">>>>),
           OptSpaces, OptQuestion, OptSpaces, Eol>>),
     Cat(<<Bol, OptSpaces,
           AltLit(<<<<"w","h","o"," ","a","r","e"," ","y","o","u">>, <<"w","h","a","t"," ","c","a","n"," ","y","o","u"," ","d","o">>, <<"h","e","l","p">>,
                    <<"w","h","a","t"," ","a","r","e"," ","y","o","u","r"," ","c","a","p","a","b","i","l","i","t","i","e","s">>>>),
           OptSpaces, OptQuestion, OptSpaces, Eol>>),
     Cat(<<Bol, OptSpaces, AltLit(<<<<"t","h","a","n","k"," ","y","o","u">>, <<"t","h","a","n","k","s">>, <<"a","p","p","r","e","c","i","a","t","e">>>>),
           OptSpaces, Eol>>),
     Cat(<<Bol, OptSpaces, AltLit(<<<<"b","y","e">>, <<"g","o","o","d","b","y","e">>, <<"s","e","e"," ","y","o","u">>, <<"e","x","i","t">>, <<"q","u","i","t">>>>),
           OptSpaces, Eol>>),
     Cat(<<Bol, OptSpaces, Lit(<<"S","w","a","r","A","I">>), OptSpaces, Eol>>) >>

is_conversational_input(user_input) ==
  LET user_input_lower == Lower(user_input)
  IN /\ ~ \E k \in DOMAIN task_patterns : Search(task_patterns[k], user_input_lower)
     /\ \E k \in DOMAIN conversational_patterns :
          Search(conversational_patterns[k], user_input_lower)

-----------------------------------------------------------------------------
(* intent_detection_node: the keyword lists *)

file_keywords ==
  << <<"f","i","n","d">>, <<"s","e","a","r","c","h">>, <<"o","p","e","n">>, <<"o","w","n","e","r","s","h","i","p">>, <<"f","o","l","d","e","r">>, <<"p","h","o","t","o">>,
    <<"v","i","d","e","o">>, <<"p","d","f">>, <<"d","o","c">>, <<"d","o","c","x">>, <<"e","x","c","e","l">>, <<"p","r","e","s","e","n","t","a","t","i","o","n">>, <<"r","e","p","o","r","t">> >>

whatsapp_keywords ==
  << <<"w","h","a","t","s","a","p","p">>, <<"m","e","s","s","a","g","e">>, <<"s","e","n","d"," ","t","o">>, <<"t","e","x","t">>, <<"t","e","l","l">>, <<"l","e","t"," ","k","n","o","w">>,
    <<"i","n","f","o","r","m">>, <<"s","e","n","d"," ","w","h","a","t","s","a","p","p">>, <<"w","h","a","t","s","a","p","p"," ","t","o">>, <<"m","e","s","s","a","g","e"," ","t","o">>, <<"s","h","a","r","e">> >>

email_keywords ==
  << <<"e","m","a","i","l">>, <<"s","e","n","d"," ","e","m","a","i","l">>, <<"c","o","m","p","o","s","e"," ","e","m","a","i","l">>, <<"d","r","a","f","t"," ","e","m","a","i","l">>, <<"m","a","i","l"," ","t","o">> >>

calendar_keywords ==
  << <<"c","a","l","e","n","d","a","r">>, <<"s","c","h","e","d","u","l","e">>, <<"s","c","h","e","d","u","l","e"," ","m","e","e","t","i","n","g">>, <<"c","r","e","a","t","e"," ","e","v","e","n","t">>,
    <<"a","d","d"," ","e","v","e","n","t">>, <<"a","p","p","o","i","n","t","m","e","n","t">>, <<"s","e","t"," ","r","e","m","i","n","d","e","r"," ","a","t">>, <<"r","e","m","i","n","d"," ","m","e"," ","a","t">> >>

phone_keywords ==
  << <<"c","a","l","l">>, <<"p","h","o","n","e">>, <<"d","i","a","l">>, <<"r","i","n","g">>, <<"m","a","k","e"," ","a"," ","c","a","l","l">> >>

payment_keywords ==
  << <<"p","a","y">>, <<"p","a","y","m","e","n","t">>, <<"s","e","n","d"," ","m","o","n","e","y">>, <<"t","r","a","n","s","f","e","r">>, <<"p","a","y","p","a","l">>,
    <<"g","o","o","g","l","e","p","a","y">>, <<"p","a","y","t","m">>, <<"p","h","o","n","e","p","e">> >>

app_keywords ==
  << <<"o","p","e","n">>, <<"l","a","u","n","c","h">>, <<"s","t","a","r","t">>, <<"r","u","n">>, <<"c","h","r","o","m","e">>, <<"b","r","o","w","s","e","r">>,
    <<"n","o","t","e","p","a","d">>, <<"c","a","l","c","u","l","a","t","o","r">> >>

search_keywords ==
  << <<"g","o","o","g","l","e">>, <<"s","e","a","r","c","h"," ","f","o","r">>, <<"l","o","o","k"," ","u","p">>, <<"f","i","n","d"," ","o","n"," ","g","o","o","g","l","e">>, <<"y","o","u","t","u","b","e">>,
    <<"b","r","o","w","s","e">> >>

task_keywords ==
  << <<"t","a","s","k">>, <<"t","o","d","o">>, <<"r","e","m","i","n","d"," ","m","e">>, <<"r","e","m","i","n","d","e","r">>, <<"a","d","d"," ","t","a","s","k">>,
    <<"c","r","e","a","t","e"," ","t","a","s","k">>, <<"l","i","s","t"," ","t","a","s","k","s">> >>

screenshot_keywords ==
  << <<"s","c","r","e","e","n","s","h","o","t">>, <<"c","a","p","t","u","r","e"," ","s","c","r","e","e","n">>, <<"s","c","r","e","e","n"," ","c","a","p","t","u","r","e">>,
    <<"t","a","k","e"," ","s","c","r","e","e","n","s","h","o","t">>, <<"c","a","p","t","u","r","e">>, <<"t","a","k","e"," ","a"," ","s","c","r","e","e","n","s","h","o","t">> >>

system_control_keywords ==
  << <<"v","o","l","u","m","e">>, <<"m","u","t","e">>, <<"u","n","m","u","t","e">>, <<"l","o","c","k">>, <<"s","h","u","t","d","o","w","n">>, <<"r","e","s","t","a","r","t">>,
    <<"r","e","b","o","o","t">>, <<"s","l","e","e","p">>, <<"h","i","b","e","r","n","a","t","e">>, <<"l","o","u","d","e","r">>, <<"q","u","i","e","t","e","r">>, <<"v","o","l","u","m","e"," ","u","p">>,
    <<"v","o","l","u","m","e"," ","d","o","w","n">>, <<"i","n","c","r","e","a","s","e"," ","v","o","l","u","m","e">>, <<"d","e","c","r","e","a","s","e"," ","v","o","l","u","m","e">>, <<"l","o","c","k"," ","s","c","r","e","e","n">>,
    <<"s","h","u","t"," ","d","o","w","n">>, <<"t","u","r","n"," ","o","f","f">>, <<"b","r","i","g","h","t","n","e","s","s">>, <<"b","r","i","g","h","t","n","e","s","s"," ","u","p">>,
    <<"b","r","i","g","h","t","n","e","s","s"," ","d","o","w","n">>, <<"b","r","i","g","h","t","e","r">>, <<"d","i","m","m","e","r">>, <<"b","a","t","t","e","r","y">>,
    <<"b","a","t","t","e","r","y"," ","s","t","a","t","u","s">>, <<"b","a","t","t","e","r","y"," ","l","e","v","e","l">>, <<"t","i","m","e">>, <<"w","h","a","t"," ","t","i","m","e">>,
    <<"c","u","r","r","e","n","t"," ","t","i","m","e">>, <<"w","h","a","t","'","s"," ","t","h","e"," ","t","i","m","e">> >>

information_questions ==
  << <<"w","h","o"," ","i","s">>, <<"w","h","o","'","s">>, <<"t","e","l","l"," ","m","e"," ","a","b","o","u","t">>, <<"w","h","a","t"," ","d","o"," ","y","o","u"," ","k","n","o","w"," ","a","b","o","u","t">>,
    <<"i","n","f","o","r","m","a","t","i","o","n"," ","a","b","o","u","t">>, <<"d","e","t","a","i","l","s"," ","a","b","o","u","t">>, <<"t","e","l","l"," ","m","e"," ","m","o","r","e"," ","a","b","o","u","t">>,
    <<"w","h","a","t"," ","i","s">>, <<"w","h","a","t","'","s">>, <<"e","x","p","l","a","i","n">>, <<"d","e","s","c","r","i","b","e">> >>

capability_questions ==
  << <<"c","a","n"," ","y","o","u">>, <<"a","r","e"," ","y","o","u"," ","a","b","l","e">>, <<"d","o"," ","y","o","u">>, <<"w","h","a","t"," ","c","a","n">>, <<"h","o","w"," ","d","o">>, <<"w","h","y">>,
    <<"h","o","w">> >>

general_questions ==
  << <<"w","h","a","t">>, <<"h","o","w">>, <<"w","h","y">>, <<"w","h","e","n">>, <<"w","h","e","r","e">>, <<"w","h","o">>, <<"?">> >>

question_op_words ==
  << <<"f","i","n","d">>, <<"s","e","a","r","c","h">>, <<"o","p","e","n">>, <<"s","e","n","d">> >>

file_extensions ==
  << <<".","p","d","f">>, <<".","d","o","c">>, <<".","d","o","c","x">>, <<".","x","l","s">>, <<".","x","l","s","x">>, <<".","t","x","t">>, <<".","j","p","g">>,
    <<".","p","n","g">>, <<".","m","p","4">>, <<".","m","p","3">> >>

file_context ==
  << <<"f","i","l","e">>, <<"d","o","c","u","m","e","n","t">>, <<"f","o","l","d","e","r">>, <<"p","d","f">>, <<"d","o","c">>, <<"e","x","c","e","l">>, <<"p","h","o","t","o">>,
    <<"v","i","d","e","o">>, <<"m","u","s","i","c">>, <<"o","w","n","e","r","s","h","i","p">>, <<"r","e","p","o","r","t">>, <<"p","r","e","s","e","n","t","a","t","i","o","n">> >>

file_operation_keywords ==
  << <<"f","i","n","d">>, <<"s","e","a","r","c","h">>, <<"o","p","e","n">>, <<"l","o","c","a","t","e">>, <<"s","h","o","w"," ","m","e">> >>

whatsapp_patterns ==
  << <<"s","e","n","d"," ","w","h","a","t","s","a","p","p">>, <<"w","h","a","t","s","a","p","p"," ","t","o">>, <<"m","e","s","s","a","g","e"," ","t","o">>, <<"t","e","x","t"," ","t","o">> >>

(* intent_detection_node: the keyword cascade.  The result is the intent of *)
(* the first rule that fires, or NoRule when the LLM has to decide.        *)

NoRule ==
  "<llm>"

\* one branch of the if/elif chain: its condition and the intent it sets
Rule(fires, intent) ==
  [fires |-> fires, intent |-> intent]

\* the chain of lines 219-413 for one command, in the order of the code
cascade_rules(user_input) ==
  LET user_input_lower == Lower(user_input)
      is_conversational == is_conversational_input(user_input)
      is_information_query == AnyIn(information_questions, user_input_lower)
      is_capability_question == AnyIn(capability_questions, user_input_lower)
      is_general_question ==
        /\ AnyIn(general_questions, user_input_lower)
        /\ ~ AnyIn(question_op_words, user_input_lower)
      has_file_context ==
        \/ AnyIn(file_context, user_input_lower)
        \/ AnyIn(file_extensions, user_input_lower)
      has_file_operation ==
        /\ AnyIn(file_operation_keywords, user_input_lower)
        /\ has_file_context
        /\ ~ is_information_query
        /\ ~ is_capability_question
      has_whatsapp_intent == AnyIn(whatsapp_keywords, user_input_lower)
      has_email_intent == AnyIn(email_keywords, user_input_lower)
      has_calendar_intent == AnyIn(calendar_keywords, user_input_lower)
      has_phone_intent == AnyIn(phone_keywords, user_input_lower)
      has_payment_intent == AnyIn(payment_keywords, user_input_lower)
      has_app_intent == AnyIn(app_keywords, user_input_lower)
      has_search_intent == AnyIn(search_keywords, user_input_lower)
      has_task_intent == AnyIn(task_keywords, user_input_lower)
      has_screenshot_intent == AnyIn(screenshot_keywords, user_input_lower)
      has_system_control_intent == AnyIn(system_control_keywords, user_input_lower)
      is_multi_agent_command ==
        /\ Contains(user_input_lower, <<"s","e","n","d">>)
        /\ AnyIn(file_keywords, user_input_lower)
      is_whatsapp_command == AnyIn(whatsapp_patterns, user_input_lower)
  IN << Rule(detect_multi_task(user_input), "multi_task"),
        Rule(is_information_query /\ ~ has_file_context, "conversation"),
        Rule(has_system_control_intent, "system_control"),
        Rule(has_screenshot_intent, "screenshot"),
        Rule(has_payment_intent, "payment"),
        Rule(has_phone_intent, "phone"),
        Rule(\/ is_whatsapp_command
             \/ (has_whatsapp_intent /\ ~ has_file_operation /\ ~ is_capability_question),
             "whatsapp"),
        Rule(is_multi_agent_command \/ (has_file_operation /\ has_whatsapp_intent),
             "multi_agent"),
        Rule(has_calendar_intent /\ ~ has_whatsapp_intent, "calendar"),
        Rule(has_email_intent /\ ~ has_whatsapp_intent, "email"),
        Rule(has_task_intent, "task"),
        Rule(has_search_intent /\ ~ has_file_operation, "websearch"),
        Rule(has_app_intent /\ ~ has_file_operation, "app_launcher"),
        Rule(has_file_operation /\ ~ is_capability_question /\ ~ is_general_question,
             "filesearch"),
        Rule(is_capability_question \/ is_general_question, "conversation"),
        Rule(is_conversational, "conversation") >>

\* the branch taken: the first whose condition holds; none leaves the LLM to decide
first_match(rules) ==
  IF \E k \in DOMAIN rules : rules[k].fires
  THEN rules[CHOOSE k \in DOMAIN rules :
               rules[k].fires /\ \A j \in 1..(k - 1) : ~ rules[j].fires].intent
  ELSE NoRule

\* keyword_intent with the file-operation rule tried before all others
keyword_intent_filesearch_first(user_input) ==
  first_match(<<cascade_rules(user_input)[14]>> \o cascade_rules(user_input))

\* keyword_intent whose calendar branch lacks "and not has_whatsapp_intent"
keyword_intent_calendar_unguarded(user_input) ==
  first_match([cascade_rules(user_input) EXCEPT
                 ![9] = Rule(AnyIn(calendar_keywords, Lower(user_input)), "calendar")])

\* keyword_intent with the multi-task check moved behind the keyword rules
keyword_intent_multi_task_last(user_input) ==
  first_match(Tail(cascade_rules(user_input)) \o <<cascade_rules(user_input)[1]>>)

keyword_intent(user_input) ==
  first_match(cascade_rules(user_input))

-----------------------------------------------------------------------------
(* MultiTaskOrchestrator.parse_workflow *)

\* a match object's group, or None
NoMatch ==
  [found |-> FALSE, group |-> <<>>]

Found(g) ==
  [found |-> TRUE, group |-> g]

SetMin(S) ==
  CHOOSE x \in S : \A y \in S : x <= y

SetMax(S) ==
  CHOOSE x \in S : \A y \in S : x >= y

\* the number of consecutive characters of s from position i that are in set
RunLen(s, i, set) ==
  LET stops == {j \in i..(Len(s) + 1) : j = Len(s) + 1 \/ s[j] \notin set}
  IN IF i < 1 \/ i > Len(s) THEN 0 ELSE SetMin(stops) - i

\* re.search(r"(send|share)\s+(.*?)\s+(?:to|with|on)", s).group(2):
\* leftmost start, \s+ greedy, (.*?) the shortest that lets the rest match
file_query_match(s) ==
  LET verbs == <<<<"s","e","n","d">>, <<"s","h","a","r","e">>>>
      rest == Cat(<<Spaces, AltLit(<<<<"t","o">>, <<"w","i","t","h">>, <<"o","n">>>>)>>)
      \* (.*?) of length n from position g, then the rest of the pattern
      fits(g, n) ==
        /\ g + n <= Len(s) + 1
        /\ \A j \in g..(g + n - 1) : s[j] # "\n"
        /\ REnds(rest, s, g + n) # {}
      \* positions after the verb and q whitespace characters
      after(a) ==
        {g \in (a + 1)..(a + RunLen(s, a, WhiteSpace)) :
           \E n \in 0..Len(s) : fits(g, n)}
      verbEnd(i) ==
        {i + Len(verbs[k]) : k \in {k \in DOMAIN verbs : OccursAt(verbs[k], s, i)}}
      starts ==
        {i \in 1..Len(s) : \E a \in verbEnd(i) : after(a) # {}}
  IN IF starts = {} THEN NoMatch
     ELSE LET i0 == SetMin(starts)
              a0 == CHOOSE a \in verbEnd(i0) : after(a) # {}
              g0 == SetMax(after(a0))
              n0 == SetMin({n \in 0..Len(s) : fits(g0, n)})
          IN Found(SubSeq(s, g0, g0 + n0 - 1))

\* where (?:to|with) matches at position i, ignoring case: the end positions
to_with_ends(s, i) ==
  {i + Len(w) : w \in {w \in {<<"t","o">>, <<"w","i","t","h">>} : OccursAt(w, Lower(s), i)}}

\* re.search(r"(?:to|with)\s+(\w+)(?:\s+on|\s+via|\s+through)?", s, re.IGNORECASE).group(1)
\* (the same group for the pattern that ends in (?:\s+on|\s+via)?)
whatsapp_contact_match(s) ==
  LET word(a) == a + RunLen(s, a, WhiteSpace)
      ok(a) == RunLen(s, a, WhiteSpace) >= 1 /\ RunLen(s, word(a), WordChars) >= 1
      starts == {i \in 1..Len(s) : \E a \in to_with_ends(s, i) : ok(a)}
  IN IF starts = {} THEN NoMatch
     ELSE LET a0 == CHOOSE a \in to_with_ends(s, SetMin(starts)) : ok(a)
          IN Found(SubSeq(s, word(a0), word(a0) + RunLen(s, word(a0), WordChars) - 1))

\* re.search(r"(?:to|with)\s+([\w\s@.]+)", s, re.IGNORECASE).group(1)
email_contact_match(s) ==
  LET cls == WordChars \cup WhiteSpace \cup {"@", "."}
      \* \s+ is greedy and gives one character back when nothing else is left for the group
      from(a) ==
        LET ws == RunLen(s, a, WhiteSpace)
        IN IF RunLen(s, a + ws, cls) >= 1 THEN a + ws ELSE a + ws - 1
      ok(a) ==
        LET ws == RunLen(s, a, WhiteSpace)
        IN ws >= 1 /\ (RunLen(s, a + ws, cls) >= 1 \/ ws >= 2)
      starts == {i \in 1..Len(s) : \E a \in to_with_ends(s, i) : ok(a)}
  IN IF starts = {} THEN NoMatch
     ELSE LET a0 == CHOOSE a \in to_with_ends(s, SetMin(starts)) : ok(a)
          IN Found(SubSeq(s, from(a0), from(a0) + RunLen(s, from(a0), cls) - 1))

\* a task dict; "" stands for a key the dict does not have
Task(agent, input, extract, use_previous) ==
  [agent |-> agent, input |-> input, extract |-> extract, use_previous |-> use_previous]

file_send_pattern ==
  Cat(<<AltLit(<<<<"s","e","n","d">>, <<"s","h","a","r","e">>>>), DotStar,
        AltLit(<<<<"f","i","l","e">>, <<"p","d","f">>, <<"p","h","o","t","o">>, <<"d","o","c","u","m","e","n","t">>>>), DotStar,
        AltLit(<<<<"t","o">>, <<"w","i","t","h">>>>)>>)

screenshot_pattern ==
  Cat(<<AltLit(<<<<"t","a","k","e">>, <<"c","a","p","t","u","r","e">>>>), DotStar, Lit(<<"s","c","r","e","e","n","s","h","o","t">>), DotStar,
        AltLit(<<<<"a","n","d">>, <<"t","h","e","n">>>>)>>)

\* the tasks built by the two templates
template_tasks(user_input) ==
  LET user_input_lower == Lower(user_input)
      file_match == file_query_match(user_input)
      wa == whatsapp_contact_match(user_input)
      em == email_contact_match(user_input)
      find_task ==
        IF file_match.found
        THEN <<Task("filesearch", <<"f","i","n","d"," ">> \o file_match.group, "file_path", "")>>
        ELSE <<>>
      send_task(slot) ==
        IF Contains(user_input_lower, <<"w","h","a","t","s","a","p","p">>)
        THEN IF wa.found
             THEN <<Task("whatsapp", <<"s","e","n","d"," ","w","h","a","t","s","a","p","p"," ","t","o"," ">> \o wa.group, "", slot)>>
             ELSE <<>>
        ELSE IF Contains(user_input_lower, <<"e","m","a","i","l">>) /\ em.found
             THEN <<Task("email", <<"s","e","n","d"," ","e","m","a","i","l"," ","t","o"," ">> \o em.group, "", slot)>>
             ELSE <<>>
      shot_send_task ==
        IF Contains(user_input_lower, <<"e","m","a","i","l">>)
        THEN IF em.found
             THEN <<Task("email", <<"s","e","n","d"," ","e","m","a","i","l"," ","t","o"," ">> \o em.group, "", "screenshot_path")>>
             ELSE <<>>
        ELSE IF Contains(user_input_lower, <<"w","h","a","t","s","a","p","p">>) /\ wa.found
             THEN <<Task("whatsapp", <<"s","e","n","d"," ","w","h","a","t","s","a","p","p"," ","t","o"," ">> \o wa.group, "",
                         "screenshot_path")>>
             ELSE <<>>
  IN IF Search(file_send_pattern, user_input_lower)
     THEN find_task \o send_task("file_path")
     ELSE IF Search(screenshot_pattern, user_input_lower)
          THEN <<Task("screenshot", <<"t","a","k","e"," ","s","c","r","e","e","n","s","h","o","t">>, "screenshot_path", "")>>
               \o shot_send_task
          ELSE <<>>

\* _ai_parse_workflow: asks the LLM and returns [] whatever it answers
ai_parse_workflow(user_input) ==
  <<>>

\* parse_workflow: the templates, then the LLM planner when they built nothing
parse_workflow(user_input) ==
  IF template_tasks(user_input) # <<>>
  THEN template_tasks(user_input)
  ELSE ai_parse_workflow(user_input)

-----------------------------------------------------------------------------
(* Python values *)

\* an Optional[str] the code inspects: None or a str
PyNone ==
  [t |-> "None", v |-> <<>>]

PyStr(x) ==
  [t |-> "str", v |-> x]

\* f"{x}"
Fmt(x) ==
  IF x.t = "None" THEN <<"N","o","n","e">> ELSE x.v

\* f"{n}" of a small number
NumStr(n) ==
  <<"0", "1", "2", "3", "4", "5", "6", "7", "8", "9">>[n + 1]

\* a message: the tuple of the parts its f-string is put together from
NoneMsg ==
  <<"<None>">>

\* bool(x) of an Optional[str] message
Truthy(msg) ==
  msg # NoneMsg /\ msg # <<>>

\* a dict is a function from its keys; d.get(k, default)
Get(d, k, default) ==
  IF k \in DOMAIN d THEN d[k] ELSE default

EmptyDict ==
  [k \in {} |-> TRUE]

\* what a call gives back: a dict, a value that is not a dict (None), or an exception
Returns(d) ==
  [raises |-> FALSE, isdict |-> TRUE, d |-> d]

ReturnsNone ==
  [raises |-> FALSE, isdict |-> FALSE, d |-> EmptyDict]

Raises ==
  [raises |-> TRUE, isdict |-> FALSE, d |-> EmptyDict]

\* str(e) of the exceptions of the model
LlmDown ==
  "llm down"

AgentBoom ==
  "agent boom"

NotADict ==
  "'NoneType' object has no attribute 'get'"

-----------------------------------------------------------------------------
(* The collaborators: what the user, the LLM and the agents may do *)

\* the commands a user may give to process_command
Corpus ==
  << <<"m","s","g"," ","m","o","m"," ","a","b","o","u","t"," ","d","i","n","n","e","r">>,
     <<"i","n","c","r","e","a","s","e"," ","v","o","l","u","m","e">>,
     <<"s","e","n","d"," ","r","e","p","o","r","t"," ","f","i","l","e"," ","t","o"," ","j","a","y"," ","o","n"," ","w","h","a","t","s","a","p","p">>,
     <<"t","a","k","e"," ","s","c","r","e","e","n","s","h","o","t"," ","a","n","d"," ","s","e","n","d"," ","t","o"," ","j","a","y"," ","o","n"," ","w","h","a","t","s","a","p","p">>,
     <<"w","e","a","t","h","e","r"," ","i","n"," ","p","u","n","e">>,
     <<"s","e","n","d"," ","t","h","e"," ","r","e","p","o","r","t"," ","t","o"," ","j","a","y">>,
     <<"f","i","n","d"," ","o","w","n","e","r","s","h","i","p"," ","d","o","c","u","m","e","n","t"," ","a","n","d"," ","s","e","n","d"," ","t","o"," ","j","a","y"," ","o","n"," ","w","h","a","t","s","a","p","p">>,
     <<" "," ","w","h","o"," ","i","s"," ","J","a","y"," ">>,
     <<"S","e","n","d"," ","r","e","p","o","r","t"," ","f","i","l","e"," ","t","o"," ","J","a","y"," ","o","n"," ","W","h","a","t","s","A","p","p">>,
     <<"t","a","k","e"," ","s","c","r","e","e","n","s","h","o","t"," ","a","n","d"," ","e","m","a","i","l"," ","i","t"," ","t","o"," ","j","a","y">>,
     <<"h","e","l","l","o">>,
     <<>> >>

NCorpus ==
  10

\* the texts the LLM may answer the enhancement prompt with (besides the
\* command itself, unchanged)
EnhanceTexts ==
  << <<" ","s","e","n","d"," ","W","h","a","t","s","A","p","p"," ","m","e","s","s","a","g","e"," ","t","o"," ","M","o","m"," ","s","a","y","i","n","g"," ","l","e","t","'","s"," ","h","a","v","e"," ","d","i","n","n","e","r"," ">>,
     <<"o","k">>,
     <<>>,
     <<"w","e","a","t","h","e","r"," ","i","n"," ","p","u","n","e">> >>

NEnhanceTexts ==
  3

\* response = self.llm.invoke(...): the call raises or returns a content
LlmRaises ==
  [raises |-> TRUE, content |-> <<>>]

LlmSays(text) ==
  [raises |-> FALSE, content |-> text]

EnhanceReplies(original_input) ==
  {LlmRaises, LlmSays(original_input)}
    \cup {LlmSays(EnhanceTexts[k]) : k \in 1..NEnhanceTexts}

\* the tokens the LLM may answer the classification prompt with
IntentReplies ==
  {LlmRaises, LlmSays(<<" ","W","h","a","t","s","A","p","p"," ">>), LlmSays(<<"w","e","a","t","h","e","r">>), LlmSays(<<"m","u","l","t","i","_","a","g","e","n","t">>),
   LlmSays(<<"I"," ","t","h","i","n","k"," ","t","h","i","s"," ","i","s"," ","a"," ","g","r","e","e","t","i","n","g">>)}

PathA ==
  <<"/","d","o","c","s","/","r","e","p","o","r","t",".","p","d","f">>

PathB ==
  <<"/","s","h","o","t","s","/","s","1",".","p","n","g">>

\* one entry of a filesearch result's search_results
FileInfo ==
  [file_info |-> [name |-> <<"r","e","p","o","r","t",".","p","d","f">>, path |-> PathA, size |-> 1048576]]

\* the dicts an agent's process_command may return: AgentResult is
\* {success, message, ...agent-specific fields}
ResultDicts ==
  { [success |-> TRUE, message |-> <<"agent: done">>],
    [success |-> TRUE, message |-> <<"agent: found">>, file_path |-> PyStr(PathA)],
    [success |-> TRUE, message |-> <<"agent: found">>, selected_file |-> PyStr(PathA),
     search_results |-> <<FileInfo>>],
    [success |-> TRUE, message |-> <<"agent: captured">>, path |-> PyStr(PathB)],
    [success |-> TRUE, message |-> <<"agent: captured">>, screenshot_path |-> PyStr(PathB)],
    [success |-> TRUE, message |-> <<"agent: attempted">>, path |-> PyNone],
    [success |-> FALSE, message |-> <<"agent: failed">>],
    [success |-> FALSE, error |-> <<"agent error">>],
    [message |-> <<"agent: no verdict">>] }

\* agent.process_command(input): returns a dict, returns None, or raises
AgentOutcomes ==
  {Returns(d) : d \in ResultDicts} \cup {ReturnsNone, Raises}

\* result.get('success') as a condition
Succeeded(d) ==
  Get(d, "success", FALSE)

-----------------------------------------------------------------------------
(* The agent registry: AgentManager.agents *)

BuiltinNames ==
  {"whatsapp", "conversation", "filesearch", "email", "calendar", "phone", "payment",
   "app_launcher", "websearch", "task", "screenshot", "system_control"}

\* the module-level agent instance registered under a name by __init__
Builtin(name) ==
  [builtin |-> TRUE, id |-> name]

\* an agent instance handed to add_agent
Custom(id) ==
  [builtin |-> FALSE, id |-> id]

\* the registry of __init__ without the email agent
InitialAgents_without_email ==
  [name \in BuiltinNames \ {"email"} |-> Builtin(name)]

InitialAgents ==
  [name \in BuiltinNames |-> Builtin(name)]

\* the names add_agent is called with: a new one and one that is registered
AddNames ==
  {"weather", "filesearch"}

\* the spelling of the names that strings are compared with
NameTable ==
  << <<<<"w","h","a","t","s","a","p","p">>, "whatsapp">>, <<<<"c","o","n","v","e","r","s","a","t","i","o","n">>, "conversation">>,
     <<<<"f","i","l","e","s","e","a","r","c","h">>, "filesearch">>, <<<<"e","m","a","i","l">>, "email">>,
     <<<<"c","a","l","e","n","d","a","r">>, "calendar">>, <<<<"p","h","o","n","e">>, "phone">>, <<<<"p","a","y","m","e","n","t">>, "payment">>,
     <<<<"a","p","p","_","l","a","u","n","c","h","e","r">>, "app_launcher">>, <<<<"w","e","b","s","e","a","r","c","h">>, "websearch">>,
     <<<<"t","a","s","k">>, "task">>, <<<<"s","c","r","e","e","n","s","h","o","t">>, "screenshot">>,
     <<<<"s","y","s","t","e","m","_","c","o","n","t","r","o","l">>, "system_control">>, <<<<"m","u","l","t","i","_","a","g","e","n","t">>, "multi_agent">>,
     <<<<"m","u","l","t","i","_","t","a","s","k">>, "multi_task">>, <<<<"w","e","a","t","h","e","r">>, "weather">> >>

\* the name a str spells; a str that spells none of them is no key of the registry
Unregistered ==
  "<other>"

AsName(text) ==
  IF \E k \in DOMAIN NameTable : NameTable[k][1] = text
  THEN NameTable[CHOOSE k \in DOMAIN NameTable : NameTable[k][1] = text][2]
  ELSE Unregistered

-----------------------------------------------------------------------------
(* State *)

VARIABLES
  pc,           \* where the process_command call in flight is
  command,      \* process_command's argument user_input
  state,        \* the AgentManagerState the graph's nodes pass along
  agents,       \* AgentManager.agents
  wf,           \* execute_workflow's locals: tasks, i, task_results, shared_data
  envelope,     \* what process_command returned
  feature_log,  \* the feature_requests.json entries
  calls,        \* history: the agent calls of the call in flight, in order
  stages,       \* history: the graph nodes run by the call in flight, in order
  llm_calls,    \* history: the LLM calls of the call in flight, in order
  log_calls,    \* history: the log_request calls of the call in flight
  n_commands,   \* process_command calls so far
  n_adds,       \* add_agent calls so far
  threads       \* the worker threads of the HTTP layer: where each is, and its locals

vars ==
  <<pc, command, state, agents, wf, envelope, feature_log, calls, stages, llm_calls,
    log_calls, n_commands, n_adds, threads>>

MaxCommands ==
  1

\* asyncio.to_thread runs each request's process_command on a worker thread of
\* the default executor; three of them are followed
Threads ==
  {1, 2, 3}

MaxAdds ==
  1

EmptyDictValue ==
  [isdict |-> TRUE, d |-> EmptyDict]

\* process_command's initial_state
initial_state(user_input) ==
  [user_input |-> Strip(user_input),
   original_input |-> <<>>,
   enhanced_input |-> <<>>,
   detected_intent |-> "",
   agent_name |-> "",
   agent_response |-> EmptyDictValue,
   final_response |-> <<>>,
   error |-> NoneMsg]

NoWorkflow ==
  [tasks |-> <<>>, i |-> 0, task_results |-> <<>>, shared_data |-> EmptyDict]

NoEnvelope ==
  [success |-> FALSE, message |-> <<>>, intent |-> "", agent_used |-> "",
   agent_response |-> EmptyDictValue, error |-> NoneMsg,
   original_input |-> <<>>, enhanced_input |-> <<>>, was_enhanced |-> FALSE]

Init ==
  /\ pc = "idle"
  /\ command = <<>>
  /\ state = initial_state(<<>>)
  /\ agents = InitialAgents
  /\ wf = NoWorkflow
  /\ envelope = NoEnvelope
  /\ feature_log = <<>>
  /\ calls = <<>>
  /\ stages = <<>>
  /\ llm_calls = <<>>
  /\ log_calls = 0
  /\ n_commands = 0
  /\ n_adds = 0
  /\ threads = [t \in Threads |-> [pc |-> "idle"]]

-----------------------------------------------------------------------------
(* AgentManager.process_command: the call and the four nodes of the graph *)

\* process_command(user_input) is called and builds initial_state
Submit(user_input) ==
  /\ pc \in {"idle", "returned"}
  /\ UNCHANGED threads
  /\ n_commands < MaxCommands
  /\ pc' = "ai_enhance"
  /\ command' = user_input
  /\ state' = initial_state(user_input)
  /\ wf' = NoWorkflow
  /\ calls' = <<>>
  /\ stages' = <<>>
  /\ llm_calls' = <<>>
  /\ log_calls' = 0
  /\ envelope' = NoEnvelope
  /\ n_commands' = n_commands + 1
  /\ UNCHANGED <<agents, feature_log, n_adds>>

\* enhanced_input_of with the except branch taking the reply's (empty) text
enhanced_input_unguarded(original_input, reply) ==
  LET enhanced_input == Strip(reply.content)
  IN IF ~ reply.raises
        /\ (Len(enhanced_input) > Len(original_input) * 3 \/ Len(enhanced_input) < 3)
     THEN original_input
     ELSE enhanced_input

\* enhanced_input_of without the length validation of lines 180-182
enhanced_input_unvalidated(original_input, reply) ==
  IF reply.raises THEN original_input ELSE Strip(reply.content)

\* the validation of the rewrite: the LLM's text, or the original when the
\* call raised or the text is more than 3 times as long or shorter than 3
enhanced_input_of(original_input, reply) ==
  IF reply.raises THEN original_input
  ELSE LET enhanced_input == Strip(reply.content)
       IN IF Len(enhanced_input) > Len(original_input) * 3 \/ Len(enhanced_input) < 3
          THEN original_input
          ELSE enhanced_input

LlmCall(site, reply) ==
  [site |-> site, raised |-> reply.raises]

\* enhanced_state that leaves user_input as it came in
enhanced_state_not_handed_on(st, original_input, enhanced_input) ==
  [st EXCEPT !.original_input = original_input,
             !.enhanced_input = enhanced_input]

\* the state the node hands on: the later nodes read user_input
enhanced_state(st, original_input, enhanced_input) ==
  [st EXCEPT !.original_input = original_input,
             !.enhanced_input = enhanced_input,
             !.user_input = enhanced_input]

ai_enhancement_node ==
  /\ pc = "ai_enhance"
  /\ UNCHANGED threads
  /\ \E reply \in EnhanceReplies(state.user_input) :
       LET original_input == state.user_input
           enhanced_input == enhanced_input_of(original_input, reply)
       IN /\ state' = enhanced_state(state, original_input, enhanced_input)
          /\ llm_calls' = Append(llm_calls, LlmCall("ai_enhance", reply))
  /\ stages' = Append(stages, "ai_enhance")
  /\ pc' = "detect_intent"
  /\ UNCHANGED <<command, agents, wf, envelope, feature_log, calls, log_calls, n_commands,
               n_adds>>

\* the LLM fallback's validation of the returned token
validated_intent(intent, registry) ==
  IF intent \in DOMAIN registry \/ intent = "multi_agent" THEN intent ELSE "conversation"

intent_detection_node ==
  /\ pc = "detect_intent"
  /\ UNCHANGED threads
  /\ LET rule == keyword_intent(state.user_input)
     IN IF rule # NoRule
        THEN /\ state' = [state EXCEPT !.detected_intent = rule, !.agent_name = rule]
             /\ UNCHANGED llm_calls
        ELSE \E reply \in IntentReplies :
               /\ llm_calls' = Append(llm_calls, LlmCall("detect_intent", reply))
               /\ IF reply.raises
                  THEN state' = [state EXCEPT
                         !.error = <<"Error in intent detection: ", LlmDown>>]
                  ELSE LET intent ==
                             validated_intent(AsName(Lower(Strip(reply.content))), agents)
                       IN state' = [state EXCEPT !.detected_intent = intent,
                                                 !.agent_name = intent]
  /\ stages' = Append(stages, "detect_intent")
  /\ pc' = "route_to_agent"
  /\ UNCHANGED <<command, agents, wf, envelope, feature_log, calls, log_calls, n_commands,
               n_adds>>

-----------------------------------------------------------------------------
(* route_to_agent_node *)

\* one call of an agent's method, as the history records it
Call(name, registry, method, input) ==
  [name |-> name, agent |-> registry[name], method |-> method, input |-> input]

\* the names route_to_agent_node's if/elif chain dispatches to
RoutedNames ==
  {"conversation", "whatsapp", "filesearch", "email", "calendar", "phone", "payment",
   "app_launcher", "websearch", "task", "screenshot", "system_control"}

MethodOf(agent_name) ==
  IF agent_name = "conversation" THEN "process_conversation" ELSE "process_command"

\* what a run of a handler leaves: its return value (or that it raised), the
\* agent calls and the LLM calls it made
Run(outcome, agent_calls, llm) ==
  [outcome |-> outcome, calls |-> agent_calls, llm |-> llm]

\* FeatureRequestLogger.log_request: the entry written for a request; the
\* file is read (a failed read counts as an empty log) and written back
\* with the entry appended (a failed write leaves the file as it was)
\* (datetime.now() is read off the count of process_command calls)
log_entry(requests, st) ==
  [timestamp |-> n_commands,
   user_input |-> st.user_input,
   detected_intent |-> st.detected_intent,
   reason |-> "No matching agent found",
   suggested_agent |-> PyNone,
   context |-> [original_input |-> st.original_input,
                enhanced_input |-> st.enhanced_input],
   status |-> "pending",
   id |-> Len(requests) + 1]

log_request(log, st, load_ok, write_ok) ==
  LET requests == IF load_ok THEN log ELSE <<>>
  IN IF write_ok THEN Append(requests, log_entry(requests, st)) ELSE log

\* FeatureRequestLogger.get_user_message: one of four texts, by the number of
\* pending requests (every logged request of the model is pending)
FeatureMessages(pending_count) ==
  << <<"This feature is not implemented yet. Your request has been logged for future development.">>,
     <<"I can't do that right now, but I've saved your request. We have ",
       NumStr(pending_count), " features in the pipeline!">>,
     <<"This capability isn't available yet, but your feedback helps us improve! Request logged.">>,
     <<"That's a great idea! I've logged your request for the development team to review.">> >>

get_user_message(log) ==
  FeatureMessages(Len(log))[(Len(log) % 4) + 1]

unimplemented_response(log) ==
  [success |-> FALSE,
   message |-> get_user_message(log),
   intent |-> "unimplemented",
   context |-> [feature_logged |-> TRUE]]

routing_error_response(e) ==
  [success |-> FALSE,
   message |-> <<"Hi! I'm SwarAI. I encountered a small issue: ", e, ". Please try again!">>,
   error |-> <<e>>]

\* a returned value as state['agent_response'] holds it
Value(outcome) ==
  [isdict |-> outcome.isdict, d |-> outcome.d]

\* the branch of the if/elif chain that calls the agent registered under agent_name
dispatch_agent(agent_name) ==
  /\ agent_name \in RoutedNames
  /\ \E outcome \in AgentOutcomes :
       /\ calls' = Append(calls, Call(agent_name, agents, MethodOf(agent_name),
                                      state.user_input))
       /\ IF outcome.raises
          THEN state' = [state EXCEPT
                 !.error = <<"Error routing to agent: ", AgentBoom>>,
                 !.agent_response = Value(Returns(routing_error_response(AgentBoom)))]
          ELSE state' = [state EXCEPT !.agent_response = Value(outcome)]
  /\ pc' = "generate_response"
  /\ UNCHANGED <<wf, feature_log, llm_calls, log_calls>>

\* the else branch: the request is logged and answered as not implemented
log_unimplemented(agent_name) ==
  /\ agent_name \notin RoutedNames \cup {"multi_task", "multi_agent"}
  /\ \E load_ok \in BOOLEAN, write_ok \in BOOLEAN :
       /\ feature_log' = log_request(feature_log, state, load_ok, write_ok)
       /\ state' = [state EXCEPT
            !.agent_response = Value(Returns(unimplemented_response(feature_log')))]
  /\ log_calls' = log_calls + 1
  /\ pc' = "generate_response"
  /\ UNCHANGED <<wf, calls, llm_calls>>

-----------------------------------------------------------------------------
(* MultiTaskOrchestrator.execute_workflow *)

could_not_parse ==
  [success |-> FALSE,
   message |-> <<"Could not parse multi-task workflow">>,
   error |-> <<"No tasks extracted">>]

\* workflow_failed that counts the failed task among the completed ones
workflow_failed_counting_all(i, result, task_results) ==
  [success |-> FALSE,
   message |-> <<"Workflow failed at task ", NumStr(i + 1), ": ">>
                 \o Get(result, "message", <<"None">>),
   completed_tasks |-> Len(task_results),
   task_results |-> task_results]

workflow_failed(i, result, task_results) ==
  [success |-> FALSE,
   message |-> <<"Workflow failed at task ", NumStr(i + 1), ": ">>
                 \o Get(result, "message", <<"None">>),
   completed_tasks |-> i,
   task_results |-> task_results]

workflow_completed(tasks, task_results) ==
  [success |-> TRUE,
   message |-> <<"Completed ", NumStr(Len(tasks)), "-task workflow successfully!">>,
   tasks_count |-> Len(tasks),
   task_results |-> task_results]

workflow_error(e) ==
  [success |-> FALSE,
   message |-> <<"Workflow execution error: ", e>>,
   error |-> <<e>>]

\* the input a task is dispatched with: its own, and the slot it names in
\* use_previous appended when shared_data has that slot
task_input_of(task, shared_data) ==
  IF task.use_previous # "" /\ task.use_previous \in DOMAIN shared_data
  THEN task.input \o <<" ">> \o Fmt(shared_data[task.use_previous])
  ELSE task.input

\* extract_into without "and result.get('success')"
extract_into_whatever_the_result(shared_data, task, result) ==
  IF task.extract = "" THEN shared_data
  ELSE IF task.extract = "file_path"
       THEN (task.extract :> Get(result, "file_path", PyStr(<<>>))) @@ shared_data
       ELSE IF task.extract = "screenshot_path"
            THEN (task.extract :> Get(result, "path", PyStr(<<>>))) @@ shared_data
            ELSE shared_data

\* shared_data after a task's result: 'file_path' in extract_key reads the
\* result's file_path, 'screenshot_path' in extract_key reads the result's path
\* (the slot names of the plans are file_path and screenshot_path)
extract_into(shared_data, task, result) ==
  IF task.extract = "" \/ ~ Succeeded(result) THEN shared_data
  ELSE IF task.extract = "file_path"
       THEN (task.extract :> Get(result, "file_path", PyStr(<<>>))) @@ shared_data
       ELSE IF task.extract = "screenshot_path"
            THEN (task.extract :> Get(result, "path", PyStr(<<>>))) @@ shared_data
            ELSE shared_data

\* task_failed that lets the loop go on
task_failed_ignored(result) ==
  FALSE

\* "if not result.get('success')": the task failed and the workflow stops
task_failed(result) ==
  ~ Succeeded(result)

TaskRecord(i, agent_name, outcome) ==
  [task_index |-> i, agent |-> agent_name, result |-> Value(outcome)]

\* the multi_task branch: execute_workflow parses the plan; with no tasks it
\* returns at once, otherwise the loop over the tasks starts
start_workflow ==
  /\ state.agent_name = "multi_task"
  /\ LET tasks == parse_workflow(state.user_input)
     IN /\ IF template_tasks(state.user_input) = <<>>
           THEN \E reply \in {LlmRaises, LlmSays(<<"[","]">>)} :
                  llm_calls' = Append(llm_calls, LlmCall("ai_parse_workflow", reply))
           ELSE UNCHANGED llm_calls
        /\ IF tasks = <<>>
           THEN /\ state' = [state EXCEPT
                      !.agent_response = Value(Returns(could_not_parse))]
                /\ pc' = "generate_response"
                /\ UNCHANGED wf
           ELSE /\ wf' = [tasks |-> tasks, i |-> 0, task_results |-> <<>>,
                          shared_data |-> EmptyDict]
                /\ pc' = "execute_workflow"
                /\ UNCHANGED state
  /\ UNCHANGED <<feature_log, calls, log_calls>>

\* execute_workflow returns d: route_to_agent_node stores it and is done
workflow_returns(d) ==
  /\ state' = [state EXCEPT !.agent_response = Value(Returns(d))]
  /\ pc' = "generate_response"

\* the loop goes on to the next task, or the workflow completes after the last
workflow_continues(task_results, shared_data) ==
  IF wf.i + 1 = Len(wf.tasks)
  THEN /\ workflow_returns(workflow_completed(wf.tasks, task_results))
       /\ wf' = [wf EXCEPT !.task_results = task_results, !.shared_data = shared_data]
  ELSE /\ wf' = [wf EXCEPT !.i = wf.i + 1, !.task_results = task_results,
                           !.shared_data = shared_data]
       /\ UNCHANGED <<state, pc>>

\* one iteration of the loop over the tasks
execute_task ==
  /\ pc = "execute_workflow"
  /\ UNCHANGED threads
  /\ LET i == wf.i
         task == wf.tasks[i + 1]
         task_input == task_input_of(task, wf.shared_data)
     IN IF task.agent \notin DOMAIN agents
        THEN /\ workflow_continues(wf.task_results, wf.shared_data)
             /\ UNCHANGED calls
        ELSE \E outcome \in AgentOutcomes :
               LET task_results ==
                     Append(wf.task_results, TaskRecord(i, task.agent, outcome))
               IN /\ calls' = Append(calls, Call(task.agent, agents, "process_command",
                                                 task_input))
                  /\ IF outcome.raises
                     THEN /\ workflow_returns(workflow_error(AgentBoom))
                          /\ UNCHANGED wf
                     ELSE IF ~ outcome.isdict
                     THEN /\ workflow_returns(workflow_error(NotADict))
                          /\ wf' = [wf EXCEPT !.task_results = task_results]
                     ELSE IF task_failed(outcome.d)
                     THEN /\ workflow_returns(
                               workflow_failed(i, outcome.d, task_results))
                          /\ wf' = [wf EXCEPT
                                      !.task_results = task_results,
                                      !.shared_data =
                                        extract_into(wf.shared_data, task, outcome.d)]
                     ELSE workflow_continues(task_results,
                            extract_into(wf.shared_data, task, outcome.d))
  /\ UNCHANGED <<command, agents, envelope, feature_log, stages, llm_calls, log_calls,
                 n_commands, n_adds>>

-----------------------------------------------------------------------------
(* _handle_multi_agent_workflow *)

\* s.startswith(p)
StartsWith(s, p) ==
  OccursAt(p, s, 1)

\* s.replace(pat, ""), pat not empty
RECURSIVE RemoveAll(_, _)
RemoveAll(s, pat) ==
  IF ~ Contains(s, pat) THEN s
  ELSE LET i == SetMin({j \in 1..Len(s) : OccursAt(pat, s, j)})
       IN SubSeq(s, 1, i - 1) \o RemoveAll(SubSeq(s, i + Len(pat), Len(s)), pat)

\* s.split(ch)
RECURSIVE SplitOn(_, _)
SplitOn(s, ch) ==
  IF \A j \in 1..Len(s) : s[j] # ch THEN <<s>>
  ELSE LET i == SetMin({j \in 1..Len(s) : s[j] = ch})
       IN <<SubSeq(s, 1, i - 1)>> \o SplitOn(SubSeq(s, i + 1, Len(s)), ch)

\* s.split()
RECURSIVE SplitWords(_)
SplitWords(s) ==
  LET t == Strip(s)
      n == RunLen(t, 1, {c \in Range(t) : c \notin WhiteSpace})
  IN IF t = <<>> THEN <<>>
     ELSE <<SubSeq(t, 1, n)>> \o SplitWords(SubSeq(t, n + 1, Len(t)))

NL ==
  <<"\n">>

file_terms ==
  << <<"o","w","n","e","r","s","h","i","p">>, <<"d","o","c","u","m","e","n","t">>, <<"f","i","l","e">>, <<"r","e","p","o","r","t">>, <<"p","r","e","s","e","n","t","a","t","i","o","n">>, <<"p","h","o","t","o">>,
     <<"v","i","d","e","o">>, <<"p","d","f">>, <<"d","o","c">> >>

invalid_recipients ==
  << <<"t","o">>, <<"f","o","r">>, <<"w","i","t","h">>, <<"a","b","o","u","t">>, <<"f","r","o","m">>, <<"t","h","e">>, <<"a">>, <<"a","n">> >>

\* the value of a KEY: line
line_value(line, key) ==
  Strip(RemoveAll(line, key))

\* the recipient of a RECIPIENT: line: a preposition or an article is dropped
recipient_of(line) ==
  LET recipient == line_value(line, <<"R","E","C","I","P","I","E","N","T",":">>)
  IN IF \E k \in DOMAIN invalid_recipients : invalid_recipients[k] = Lower(recipient)
     THEN <<>>
     ELSE recipient

\* the loop over the lines of the LLM's answer
RECURSIVE parse_lines(_, _, _)
parse_lines(lines, k, p) ==
  IF k > Len(lines) THEN p
  ELSE LET line == lines[k]
       IN parse_lines(lines, k + 1,
            IF StartsWith(line, <<"W","O","R","K","F","L","O","W",":">>)
            THEN [p EXCEPT !.workflow_type = line_value(line, <<"W","O","R","K","F","L","O","W",":">>)]
            ELSE IF StartsWith(line, <<"F","I","L","E",":">>)
            THEN [p EXCEPT !.file_query = line_value(line, <<"F","I","L","E",":">>)]
            ELSE IF StartsWith(line, <<"R","E","C","I","P","I","E","N","T",":">>)
            THEN [p EXCEPT !.recipient = recipient_of(line)]
            ELSE IF StartsWith(line, <<"M","E","S","S","A","G","E",":">>)
            THEN [p EXCEPT !.message = line_value(line, <<"M","E","S","S","A","G","E",":">>)]
            ELSE p)

parse_parameters(content) ==
  parse_lines(SplitOn(Strip(content), "\n"), 1,
              [workflow_type |-> <<>>, file_query |-> <<>>, recipient |-> <<>>,
               message |-> <<>>])

\* the answers the LLM may give to the workflow-analysis prompt
ParseReplies ==
  { LlmRaises,
    LlmSays(<<"W","O","R","K","F","L","O","W",":"," ","f","i","l","e","_","t","o","_","w","h","a","t","s","a","p","p">> \o NL \o <<"F","I","L","E",":"," ","r","e","p","o","r","t">> \o NL
            \o <<"R","E","C","I","P","I","E","N","T",":"," ","j","a","y">> \o NL \o <<"M","E","S","S","A","G","E",":"," ">>),
    LlmSays(<<"W","O","R","K","F","L","O","W",":"," ","w","h","a","t","s","a","p","p","_","o","n","l","y">> \o NL \o <<"F","I","L","E",":"," ">> \o NL
            \o <<"R","E","C","I","P","I","E","N","T",":"," ","T","h","e">> \o NL \o <<"M","E","S","S","A","G","E",":"," ","h","i">>),
    LlmSays(<<"W","O","R","K","F","L","O","W",":"," ","w","h","a","t","s","a","p","p","_","o","n","l","y">> \o NL \o <<"F","I","L","E",":"," ">> \o NL
            \o <<"R","E","C","I","P","I","E","N","T",":"," ","m","o","m">> \o NL \o <<"M","E","S","S","A","G","E",":"," ","d","i","n","n","e","r"," ","a","t"," ","8">>),
    LlmSays(<<"W","O","R","K","F","L","O","W",":"," ","s","e","a","r","c","h","_","a","n","d","_","s","h","a","r","e">> \o NL \o <<"F","I","L","E",":"," ","r","e","p","o","r","t">> \o NL
            \o <<"R","E","C","I","P","I","E","N","T",":"," ">> \o NL \o <<"M","E","S","S","A","G","E",":"," ">>),
    LlmSays(<<"I"," ","a","m"," ","n","o","t"," ","s","u","r","e"," ","w","h","a","t"," ","y","o","u"," ","m","e","a","n">>) }

\* f"{size / (1024 * 1024):.1f}" for the sizes of the model
SizeMB(size) ==
  IF size = 1048576 THEN <<"1",".","0">> ELSE <<"0",".","0">>

\* a called agent's result, read as the caller reads it: the exception of the
\* call, or of .get on a value that is no dict
Failure(outcome) ==
  IF outcome.raises THEN AgentBoom ELSE NotADict

Usable(outcome) ==
  ~ outcome.raises /\ outcome.isdict

has_results(outcome) ==
  /\ Succeeded(outcome.d)
  /\ Get(outcome.d, "search_results", <<>>) # <<>>

\* _execute_file_to_whatsapp_workflow
execute_file_to_whatsapp_workflow(file_query, recipient, custom_message, registry) ==
  LET find == Call("filesearch", registry, "process_command", <<"f","i","n","d"," ">> \o file_query)
      failed(e) ==
        [success |-> FALSE,
         message |-> <<"Hi! I'm SwarAI. I had trouble with that file sharing request. Error: ", e>>,
         workflow |-> "file_to_whatsapp",
         error |-> <<e>>]
      not_found ==
        [success |-> FALSE,
         message |-> <<"I couldn't find '">> \o file_query
                       \o <<"'. Please check the filename and try again.">>,
         workflow |-> "file_to_whatsapp",
         step |-> "file_search_failed"]
      send(file_result) ==
        LET best_file == file_result.search_results[1].file_info
            sharing_text ==
              IF custom_message # <<>> THEN custom_message
              ELSE <<"S","h","a","r","i","n","g"," ","f","i","l","e",":"," ">> \o best_file.name \o <<" ","(">> \o SizeMB(best_file.size)
                     \o <<"M","B",")">>
            tell == Call("whatsapp", registry, "process_command",
                         <<"S","e","n","d"," ","W","h","a","t","s","A","p","p"," ","t","o"," ">> \o recipient \o <<":"," ">> \o sharing_text)
            sent(whatsapp_result) ==
              IF Succeeded(whatsapp_result)
              THEN IF "message" \in DOMAIN whatsapp_result
                   THEN [success |-> TRUE,
                         message |-> <<"Great! I found '">> \o best_file.name
                                       \o <<"' and prepared WhatsApp message for ">>
                                       \o recipient \o <<"! File: ">> \o best_file.name
                                       \o <<" ","(">> \o SizeMB(best_file.size) \o <<"M","B",")"," ">>
                                       \o whatsapp_result.message,
                         workflow |-> "file_to_whatsapp",
                         file_info |-> best_file,
                         whatsapp_result |-> whatsapp_result,
                         whatsapp_url |-> Get(whatsapp_result, "whatsapp_url", <<>>)]
                   ELSE failed("'message'")
              ELSE [success |-> FALSE,
                    message |-> <<"I found '">> \o best_file.name
                                  \o <<"' but couldn't create WhatsApp message: ">>
                                  \o Get(whatsapp_result, "message", <<"Unknown error">>),
                    workflow |-> "file_to_whatsapp",
                    step |-> "whatsapp_failed"]
        IN {Run(Returns(IF Usable(o2) THEN sent(o2.d) ELSE failed(Failure(o2))),
                <<find, tell>>, <<>>) : o2 \in AgentOutcomes}
  IN UNION {IF ~ Usable(o1) THEN {Run(Returns(failed(Failure(o1))), <<find>>, <<>>)}
            ELSE IF ~ has_results(o1) THEN {Run(Returns(not_found), <<find>>, <<>>)}
            ELSE send(o1.d) : o1 \in AgentOutcomes}

\* _execute_search_and_share_workflow
execute_search_and_share_workflow(file_query, recipient, registry) ==
  LET search == Call("filesearch", registry, "process_command", <<"s","e","a","r","c","h"," ">> \o file_query)
      answer(o) ==
        IF ~ Usable(o)
        THEN [success |-> FALSE,
              message |-> <<"Search and share failed: ", Failure(o)>>,
              workflow |-> "search_and_share",
              error |-> <<Failure(o)>>]
        ELSE IF ~ has_results(o)
        THEN [success |-> FALSE,
              message |-> <<"No files found matching '">> \o file_query
                            \o <<"'. Try a different search term.">>,
              workflow |-> "search_and_share"]
        ELSE [success |-> TRUE,
              message |-> <<"Found ", NumStr(Len(o.d.search_results)),
                            " file(s) matching '">> \o file_query
                            \o <<"' ready for sharing: 1. ">>
                            \o o.d.search_results[1].file_info.name
                            \o <<" ","(">> \o SizeMB(o.d.search_results[1].file_info.size)
                            \o <<"M","B",")"," ">>
                            \o <<"Say 'Send [filename] to ">>
                            \o (IF recipient # <<>> THEN recipient ELSE <<"[","c","o","n","t","a","c","t","]">>)
                            \o <<" on WhatsApp' to share!">>,
              workflow |-> "search_and_share",
              search_results |-> o.d.search_results]
  IN {Run(Returns(answer(o)), <<search>>, <<>>) : o \in AgentOutcomes}

\* the words after "to" or "for" that may name a person
skipped_words ==
  << <<"t","h","e">>, <<"a">>, <<"a","n">>, <<"m","y">>, <<"y","o","u","r">>, <<"h","i","s">>, <<"h","e","r">>, <<"t","h","e","i","r">>, <<"o","u","r">>,
     <<"w","h","a","t","s","a","p","p">>, <<"m","e","s","s","a","g","e">>, <<"f","i","l","e">> >>

mentioned_files(user_input) ==
  SelectSeq(file_terms, LAMBDA term : Contains(Lower(user_input), term))

potential_recipients(user_input) ==
  LET words == SplitWords(user_input)
      named(i) ==
        /\ Lower(words[i]) \in {<<"t","o">>, <<"f","o","r">>}
        /\ i + 1 <= Len(words)
        /\ \A k \in DOMAIN skipped_words : skipped_words[k] # Lower(words[i + 1])
      picks == {i \in DOMAIN words : named(i)}
      RECURSIVE collect(_)
      collect(i) ==
        IF i > Len(words) THEN <<>>
        ELSE (IF i \in picks THEN <<words[i + 1]>> ELSE <<>>) \o collect(i + 1)
  IN collect(1)

\* the answers the LLM may give to the generic workflow's prompt: only
\* whether the call raises matters, the text is not used
AnalysisReplies ==
  {LlmRaises, LlmSays(<<"d","o"," ","t","h","e"," ","f","i","l","e"," ","s","e","a","r","c","h"," ","f","i","r","s","t">>)}

\* _execute_generic_multi_agent_workflow
execute_generic_multi_agent_workflow(user_input, registry) ==
  LET failed(e) ==
        [success |-> FALSE,
         message |-> <<"Hi! I'm SwarAI. I had trouble with that request. Could you try rephrasing it? Error: ", e>>,
         workflow |-> "generic_error",
         error |-> <<e>>]
      files == mentioned_files(user_input)
      recipients == potential_recipients(user_input)
      asked(reply) == <<LlmCall("generic_workflow", reply)>>
      \* a result handed back as it is; an exception of the call is caught here
      delegate(call, reply) ==
        {Run(IF o.raises THEN Returns(failed(AgentBoom)) ELSE o, <<call>>, asked(reply))
           : o \in AgentOutcomes}
      searched(o) ==
        IF ~ Usable(o) THEN failed(Failure(o))
        ELSE IF Succeeded(o.d)
        THEN [success |-> TRUE,
              message |-> <<"Found files related to '">> \o files[1] \o <<"'! ">>
                            \o Get(o.d, "message", <<>>),
              workflow |-> "file_search",
              file_results |-> Get(o.d, "search_results", <<>>)]
        ELSE [success |-> FALSE,
              message |-> <<"I couldn't find any files related to '">> \o files[1]
                            \o <<"'. Could you be more specific?">>,
              workflow |-> "file_search_failed"]
      after(reply) ==
        IF files # <<>> /\ recipients # <<>>
        THEN {Run(r.outcome, r.calls, asked(reply)) :
                r \in execute_file_to_whatsapp_workflow(files[1], recipients[1], <<>>,
                                                        registry)}
        ELSE IF files # <<>>
        THEN LET find == Call("filesearch", registry, "process_command",
                              <<"f","i","n","d"," ">> \o files[1])
             IN {Run(Returns(searched(o)), <<find>>, asked(reply)) : o \in AgentOutcomes}
        ELSE IF AnyIn(<<<<"s","e","n","d">>, <<"m","e","s","s","a","g","e">>, <<"t","e","l","l">>, <<"w","h","a","t","s","a","p","p">>>>, Lower(user_input))
        THEN delegate(Call("whatsapp", registry, "process_command", user_input), reply)
        ELSE delegate(Call("conversation", registry, "process_conversation", user_input),
                      reply)
  IN UNION {IF reply.raises THEN {Run(Returns(failed(LlmDown)), <<>>, asked(reply))}
            ELSE after(reply) : reply \in AnalysisReplies}

\* _handle_multi_agent_workflow
handle_multi_agent_workflow(user_input, registry) ==
  LET failed(e) ==
        [success |-> FALSE,
         message |-> <<"Hi! I'm SwarAI. I had trouble understanding that multi-agent request. Error: ", e>>,
         workflow |-> "multi_agent_error",
         error |-> <<e>>]
      has_file_intent ==
        \E k \in DOMAIN file_terms : Contains(Lower(user_input), file_terms[k])
      asked(reply) == <<LlmCall("multi_agent", reply)>>
      delegate(call, llm) ==
        {Run(IF o.raises THEN Returns(failed(AgentBoom)) ELSE o, <<call>>, llm)
           : o \in AgentOutcomes}
      after(reply) ==
        LET p == parse_parameters(reply.content)
            inner ==
              IF p.workflow_type = <<"f","i","l","e","_","t","o","_","w","h","a","t","s","a","p","p">> /\ p.file_query # <<>>
                 /\ p.recipient # <<>>
              THEN execute_file_to_whatsapp_workflow(p.file_query, p.recipient, p.message,
                                                     registry)
              ELSE IF p.workflow_type = <<"s","e","a","r","c","h","_","a","n","d","_","s","h","a","r","e">> /\ p.file_query # <<>>
              THEN execute_search_and_share_workflow(p.file_query, p.recipient, registry)
              ELSE IF p.workflow_type = <<"w","h","a","t","s","a","p","p","_","o","n","l","y">> /\ p.recipient # <<>>
              THEN delegate(Call("whatsapp", registry, "process_command",
                                 IF p.message # <<>>
                                 THEN <<"S","e","n","d"," ","W","h","a","t","s","A","p","p"," ","t","o"," ">> \o p.recipient \o <<":"," ">>
                                        \o p.message
                                 ELSE <<"S","e","n","d"," ","W","h","a","t","s","A","p","p"," ","t","o"," ">> \o p.recipient), <<>>)
              ELSE execute_generic_multi_agent_workflow(user_input, registry)
        IN {Run(r.outcome, r.calls, asked(reply) \o r.llm) : r \in inner}
  IN IF ~ has_file_intent
        /\ AnyIn(<<<<"s","e","n","d"," ","w","h","a","t","s","a","p","p">>, <<"w","h","a","t","s","a","p","p"," ","t","o">>, <<"m","e","s","s","a","g","e"," ","t","o">>>>, Lower(user_input))
     THEN delegate(Call("whatsapp", registry, "process_command", user_input), <<>>)
     ELSE UNION {IF reply.raises THEN {Run(Returns(failed(LlmDown)), <<>>, asked(reply))}
                 ELSE after(reply) : reply \in ParseReplies}

\* the multi_agent branch
legacy_workflow ==
  /\ state.agent_name = "multi_agent"
  /\ \E run \in handle_multi_agent_workflow(state.user_input, agents) :
       /\ state' = [state EXCEPT !.agent_response = Value(run.outcome)]
       /\ calls' = calls \o run.calls
       /\ llm_calls' = llm_calls \o run.llm
  /\ pc' = "generate_response"
  /\ UNCHANGED <<wf, feature_log, log_calls>>

\* route_skipped without the early return: the chain runs on the empty name
route_not_skipped ==
  log_unimplemented(state.agent_name)

\* with the error of an earlier node set, the node passes the state on
route_skipped ==
  /\ pc' = "generate_response"
  /\ UNCHANGED <<state, wf, feature_log, calls, llm_calls, log_calls>>

route_to_agent_node ==
  /\ pc = "route_to_agent"
  /\ UNCHANGED threads
  /\ stages' = Append(stages, "route_to_agent")
  /\ IF Truthy(state.error)
     THEN route_skipped
     ELSE \/ start_workflow
          \/ legacy_workflow
          \/ dispatch_agent(state.agent_name)
          \/ log_unimplemented(state.agent_name)
  /\ UNCHANGED <<command, agents, envelope, n_commands, n_adds>>

-----------------------------------------------------------------------------
(* generate_response_node and the return of process_command *)

final_response_of(st) ==
  IF Truthy(st.error) THEN <<"System Error: ">> \o st.error
  ELSE IF ~ st.agent_response.isdict
       THEN <<"Error generating response: ", NotADict>>
       ELSE LET agent_response == st.agent_response.d
                error_msg == Get(agent_response, "error", <<"Unknown error occurred">>)
            IN IF Succeeded(agent_response)
               THEN Get(agent_response, "message", <<"Task completed successfully!">>)
               ELSE Get(agent_response, "message", <<"Error: ">> \o error_msg)

generate_response_node ==
  /\ pc = "generate_response"
  /\ UNCHANGED threads
  /\ state' = [state EXCEPT !.final_response = final_response_of(state)]
  /\ stages' = Append(stages, "generate_response")
  /\ pc' = "return"
  /\ UNCHANGED <<command, agents, wf, envelope, feature_log, calls, llm_calls, log_calls,
                 n_commands, n_adds>>

\* the success field of the envelope
envelope_success(result) ==
  ~ Truthy(result.error)

\* the dict process_command returns for the final state of the graph
response_envelope(result) ==
  [success |-> envelope_success(result),
   message |-> result.final_response,
   intent |-> result.detected_intent,
   agent_used |-> result.agent_name,
   agent_response |-> result.agent_response,
   error |-> result.error,
   search_results |-> Get(result.agent_response.d, "search_results", <<>>),
   selected_file |-> Get(result.agent_response.d, "selected_file", PyNone),
   action_type |-> Get(result.agent_response.d, "action_type", PyNone),
   whatsapp_url |-> Get(result.agent_response.d, "whatsapp_url", PyNone),
   workflow |-> Get(result.agent_response.d, "workflow", PyNone),
   original_input |-> result.original_input,
   enhanced_input |-> result.enhanced_input,
   was_enhanced |-> result.original_input # result.enhanced_input]

\* the dict of process_command's except branch
error_envelope(user_input, e) ==
  [success |-> FALSE,
   message |-> <<"MCP Error: ", e>>,
   intent |-> "error",
   agent_used |-> "none",
   agent_response |-> EmptyDictValue,
   error |-> <<"MCP Error: ", e>>,
   search_results |-> <<>>,
   selected_file |-> PyNone,
   action_type |-> PyStr(<<"e","r","r","o","r">>),
   whatsapp_url |-> PyNone,
   workflow |-> PyNone,
   original_input |-> user_input,
   enhanced_input |-> user_input,
   was_enhanced |-> FALSE]

\* Return without the except branch: the exception leaves process_command
Return_without_except ==
  /\ pc = "return"
  /\ UNCHANGED threads
  /\ envelope' = IF state.agent_response.isdict THEN response_envelope(state)
                 ELSE envelope
  /\ pc' = IF state.agent_response.isdict THEN "returned" ELSE "raised"
  /\ UNCHANGED <<command, state, agents, wf, feature_log, calls, stages, llm_calls,
                 log_calls, n_commands, n_adds>>

\* process_command returns: agent_response.get(...) raises on a value that is
\* no dict, and the except branch answers
Return ==
  /\ pc = "return"
  /\ UNCHANGED threads
  /\ envelope' = IF state.agent_response.isdict
                 THEN response_envelope(state)
                 ELSE error_envelope(command, NotADict)
  /\ pc' = "returned"
  /\ UNCHANGED <<command, state, agents, wf, feature_log, calls, stages, llm_calls,
                 log_calls, n_commands, n_adds>>

\* add_agent(name, agent_instance), from any thread at any time
add_agent(name, agent_instance) ==
  /\ n_adds < MaxAdds
  /\ UNCHANGED threads
  /\ agents' = (name :> agent_instance) @@ agents
  /\ n_adds' = n_adds + 1
  /\ UNCHANGED <<pc, command, state, wf, envelope, feature_log, calls, stages, llm_calls,
                 log_calls, n_commands>>

ProcessCommand ==
  \E user_input \in {Corpus[k] : k \in 1..NCorpus} : Submit(user_input)

AddAgent ==
  \E name \in AddNames : add_agent(name, Custom(name))

Next ==
  \/ ProcessCommand
  \/ ai_enhancement_node
  \/ intent_detection_node
  \/ route_to_agent_node
  \/ execute_task
  \/ generate_response_node
  \/ Return
  \/ AddAgent

Spec ==
  Init /\ [][Next]_vars

-----------------------------------------------------------------------------
(* The classifier and the planner on a wider set of commands: process_command *)
(* from the call to the end of route_to_agent_node, with the built-in agents. *)

Phrases ==
  << <<"i","n","c","r","e","a","s","e"," ","v","o","l","u","m","e"," ","o","f"," ","m","y"," ","p","r","e","s","e","n","t","a","t","i","o","n"," ","f","i","l","e">>,
     <<"o","p","e","n"," ","v","o","l","u","m","e"," ","r","e","p","o","r","t">>,
     <<"s","e","n","d"," ","v","o","l","u","m","e"," ","r","e","p","o","r","t"," ","f","i","l","e"," ","t","o"," ","j","a","y"," ","o","n"," ","w","h","a","t","s","a","p","p">>,
     <<"w","h","a","t"," ","i","s"," ","t","h","e"," ","v","o","l","u","m","e"," ","o","f"," ","s","e","a","r","c","h">>,
     <<"m","e","s","s","a","g","e"," ","m","o","m"," ","a","b","o","u","t"," ","t","h","e"," ","s","c","h","e","d","u","l","e">>,
     <<"c","a","n"," ","y","o","u"," ","m","e","s","s","a","g","e"," ","m","o","m"," ","a","b","o","u","t"," ","t","h","e"," ","s","c","h","e","d","u","l","e">>,
     <<"f","i","n","d"," ","s","c","h","e","d","u","l","e"," ","d","o","c","u","m","e","n","t"," ","a","n","d"," ","t","e","x","t"," ","i","t">>,
     <<"s","c","h","e","d","u","l","e"," ","m","e","e","t","i","n","g"," ","t","o","m","o","r","r","o","w">>,
     <<"s","h","a","r","e"," ","r","e","p","o","r","t"," ","p","d","f"," ","w","i","t","h"," ","t","h","e"," ","t","e","a","m"," ","o","n"," ","w","h","a","t","s","a","p","p">>,
     <<"f","i","n","d"," ","o","w","n","e","r","s","h","i","p"," ","d","o","c","u","m","e","n","t"," ","a","n","d"," ","s","e","n","d"," ","t","o"," ","j","a","y"," ","o","n"," ","w","h","a","t","s","a","p","p">>,
     <<>>,
     <<" "," "," ">>,
     <<"h","i">>,
     <<"s","e","n","d"," ","r","e","p","o","r","t"," ","f","i","l","e"," ","t","o"," ","j","a","y"," ","o","n"," ","w","h","a","t","s","a","p","p">>,
     <<"m","e","s","s","a","g","e"," ","m","o","m"," ","a","b","o","u","t"," ","t","h","e"," ","p","d","f">>,
     <<"m","e","s","s","a","g","e"," ","m","o","m"," ","a","b","o","u","t"," ","t","h","e"," ","p","d","f"," ","b","y"," ","p","h","o","n","e">>,
     <<"t","a","k","e"," ","s","c","r","e","e","n","s","h","o","t"," ","a","n","d"," ","e","m","a","i","l"," ","i","t">>,
     <<"t","a","k","e"," ","s","c","r","e","e","n","s","h","o","t"," ","a","n","d"," ","s","e","n","d"," ","t","o"," ","j","a","y"," ","o","n"," ","w","h","a","t","s","a","p","p">>,
     <<"s","h","a","r","e"," ","p","h","o","t","o"," ","w","i","t","h"," ","a"," ","f","r","i","e","n","d"," ","o","n"," ","w","h","a","t","s","a","p","p">> >>

NPhrases ==
  18

ClassifyCommand ==
  \E user_input \in {Phrases[k] : k \in 1..NPhrases} : Submit(user_input)

NextClassify ==
  \/ ClassifyCommand
  \/ ai_enhancement_node
  \/ intent_detection_node
  \/ route_to_agent_node

SpecClassify ==
  Init /\ [][NextClassify]_vars

\* ---------------------------------------------------------------------------
\* log_request on worker threads. FeatureRequestLogger keeps no lock: a call
\* reads the whole file into its local list (requests = self._load_requests()),
\* appends its entry to that list and rewrites the file from it. The read and
\* the rewrite are separate steps, and other threads' steps fall between them.
\* ---------------------------------------------------------------------------

\* one step of thread t inside log_request(user_input, detected_intent, ...)
log_request_thread(t) ==
  \/ \* requests = self._load_requests(): the file's entries, or [] when the
     \* file is missing or json.load raises
     /\ threads[t].pc = "idle"
     /\ \E user_input \in {<<"w","e","a","t","h","e","r"," ","i","n"," ","p","u","n","e">>, <<"p","l","a","y"," ","s","o","m","e"," ","m","u","s","i","c">>}, load_ok \in BOOLEAN :
          threads' = [threads EXCEPT ![t] =
            [pc |-> "loaded",
             st |-> [user_input |-> user_input, detected_intent |-> "conversation",
                     original_input |-> user_input, enhanced_input |-> user_input],
             requests |-> IF load_ok THEN feature_log ELSE <<>>]]
     /\ UNCHANGED <<pc, command, state, agents, wf, envelope, feature_log, calls, stages,
                    llm_calls, log_calls, n_commands, n_adds>>
  \/ \* requests.append(new_request); open(log_file, 'w'); json.dump(requests);
     \* return True, or return False when the write raised
     /\ threads[t].pc = "loaded"
     /\ \E write_ok \in BOOLEAN :
          LET requests == threads[t].requests
          IN /\ feature_log' = IF write_ok
                               THEN Append(requests, log_entry(requests, threads[t].st))
                               ELSE feature_log
             /\ threads' = [threads EXCEPT ![t] = [pc |-> "returned", returned |-> write_ok]]
     /\ UNCHANGED <<pc, command, state, agents, wf, envelope, calls, stages, llm_calls,
                    log_calls, n_commands, n_adds>>

SpecLog ==
  Init /\ [][\E t \in Threads : log_request_thread(t)]_vars

\* tasks = self.parse_workflow(user_input), for the commands the worker threads
\* run workflows of: the file template, the same command capitalised (its plan
\* is the message task alone, which names a slot no task of the plan fills),
\* and a command with no plan
WorkflowPlans ==
  {parse_workflow(user_input) :
     user_input \in {<<"s","e","n","d"," ","r","e","p","o","r","t"," ","f","i","l","e"," ","t","o"," ","j","a","y"," ","o","n"," ","w","h","a","t","s","a","p","p">>,
                     <<"S","e","n","d"," ","r","e","p","o","r","t"," ","f","i","l","e"," ","t","o"," ","J","a","y"," ","o","n"," ","W","h","a","t","s","A","p","p">>,
                     <<"h","e","l","l","o">>}}

\* execute_workflow as it would be with shared_data kept on the orchestrator:
\* a task's input is built from a map the other runs write to as well
execute_workflow_thread_with_one_map(t) ==
  \/ /\ threads[t].pc = "idle"
     /\ \E tasks \in WorkflowPlans :
          threads' = [threads EXCEPT ![t] =
            IF tasks = <<>>
            THEN [pc |-> "returned", returned |-> could_not_parse]
            ELSE [pc |-> "execute_workflow", tasks |-> tasks, i |-> 0,
                  task_results |-> <<>>, shared_data |-> EmptyDict,
                  inputs |-> <<>>]]
     /\ UNCHANGED <<pc, command, state, agents, wf, envelope, feature_log, calls, stages,
                    llm_calls, log_calls, n_commands, n_adds>>
  \/ /\ threads[t].pc = "execute_workflow"
     /\ LET my == threads[t]
            i == my.i
            task == my.tasks[i + 1]
            last == i + 1 = Len(my.tasks)
        IN \E other \in Threads :
           LET theirs == IF "shared_data" \in DOMAIN threads[other]
                         THEN threads[other].shared_data ELSE EmptyDict
               task_input == task_input_of(task, my.shared_data @@ theirs)
           IN IF task.agent \notin DOMAIN agents
              THEN threads' = [threads EXCEPT ![t] =
                     IF last
                     THEN [my EXCEPT !.pc = "returned"]
                     ELSE [my EXCEPT !.i = i + 1]]
              ELSE \E outcome \in
                        {Returns([success |-> TRUE, message |-> <<"agent: found">>,
                                  file_path |-> PyStr(path)]) : path \in {PathA, PathB}}
                        \cup {Returns([success |-> FALSE, message |-> <<"agent: failed">>]),
                              Raises} :
                     threads' = [threads EXCEPT ![t] =
                       IF outcome.raises
                       THEN [my EXCEPT !.pc = "returned",
                                       !.inputs = Append(@, task_input)]
                       ELSE [my EXCEPT
                               !.pc = IF task_failed(outcome.d) \/ last
                                      THEN "returned" ELSE @,
                               !.i = IF task_failed(outcome.d) \/ last THEN @ ELSE i + 1,
                               !.task_results =
                                 Append(@, TaskRecord(i, task.agent, outcome)),
                               !.shared_data = extract_into(@, task, outcome.d),
                               !.inputs = Append(@, task_input)]]
     /\ UNCHANGED <<pc, command, state, agents, wf, envelope, feature_log, calls, stages,
                    llm_calls, log_calls, n_commands, n_adds>>

\* one step of thread t inside execute_workflow(user_input): the call's entry
\* up to the loop (tasks = self.parse_workflow(user_input), task_results = [],
\* shared_data = {}), or one iteration of the loop. tasks, task_results and
\* shared_data are locals of the call; the registry is the manager's
execute_workflow_thread(t) ==
  \/ /\ threads[t].pc = "idle"
     /\ \E tasks \in WorkflowPlans :
          threads' = [threads EXCEPT ![t] =
            IF tasks = <<>>
            THEN [pc |-> "returned", returned |-> could_not_parse]
            ELSE [pc |-> "execute_workflow", tasks |-> tasks, i |-> 0,
                  task_results |-> <<>>, shared_data |-> EmptyDict,
                  inputs |-> <<>>]]
     /\ UNCHANGED <<pc, command, state, agents, wf, envelope, feature_log, calls, stages,
                    llm_calls, log_calls, n_commands, n_adds>>
  \/ /\ threads[t].pc = "execute_workflow"
     /\ LET my == threads[t]
            i == my.i
            task == my.tasks[i + 1]
            last == i + 1 = Len(my.tasks)
        IN LET task_input == task_input_of(task, my.shared_data)
           IN IF task.agent \notin DOMAIN agents
              THEN threads' = [threads EXCEPT ![t] =
                     IF last
                     THEN [my EXCEPT !.pc = "returned"]
                     ELSE [my EXCEPT !.i = i + 1]]
              ELSE \E outcome \in
                        {Returns([success |-> TRUE, message |-> <<"agent: found">>,
                                  file_path |-> PyStr(path)]) : path \in {PathA, PathB}}
                        \cup {Returns([success |-> FALSE, message |-> <<"agent: failed">>]),
                              Raises} :
                     threads' = [threads EXCEPT ![t] =
                       IF outcome.raises
                       THEN [my EXCEPT !.pc = "returned",
                                       !.inputs = Append(@, task_input)]
                       ELSE [my EXCEPT
                               !.pc = IF task_failed(outcome.d) \/ last
                                      THEN "returned" ELSE @,
                               !.i = IF task_failed(outcome.d) \/ last THEN @ ELSE i + 1,
                               !.task_results =
                                 Append(@, TaskRecord(i, task.agent, outcome)),
                               !.shared_data = extract_into(@, task, outcome.d),
                               !.inputs = Append(@, task_input)]]
     /\ UNCHANGED <<pc, command, state, agents, wf, envelope, feature_log, calls, stages,
                    llm_calls, log_calls, n_commands, n_adds>>

SpecWorkflows ==
  Init /\ [][\E t \in Threads : execute_workflow_thread(t)]_vars

-----------------------------------------------------------------------------
(* Properties *)

EnvelopeFields ==
  {"success", "message", "intent", "agent_used", "agent_response", "original_input",
   "enhanced_input", "was_enhanced"}

StageOrder ==
  <<"ai_enhance", "detect_intent", "route_to_agent", "generate_response">>

IsPrefix(s, t) ==
  Len(s) <= Len(t) /\ s = SubSeq(t, 1, Len(s))

\* route_to_agent_node is over
Routed ==
  pc \in {"generate_response", "return", "returned"}

\* a task record whose agent returned a dict with a true success
RecordSucceeded(record) ==
  record.result.isdict /\ Succeeded(record.result.d)

\* a task record whose agent returned a dict with success false
RecordReportedFailure(record) ==
  /\ record.result.isdict
  /\ "success" \in DOMAIN record.result.d
  /\ record.result.d.success = FALSE

NormalizationRaised ==
  llm_calls # <<>> /\ llm_calls[1].site = "ai_enhance" /\ llm_calls[1].raised

ClassificationRaised ==
  \E k \in DOMAIN llm_calls : llm_calls[k].site = "detect_intent" /\ llm_calls[k].raised

\* C1: process_command never raises: whatever the LLM and the agents do, an
\* invocation that has ended has returned an envelope that carries success,
\* message, intent, agent_used, agent_response, original_input,
\* enhanced_input and was_enhanced.
C1_NeverRaises ==
  /\ pc \in {"idle", "ai_enhance", "detect_intent", "route_to_agent", "execute_workflow",
             "generate_response", "return", "returned"}
  /\ pc = "returned" =>
       /\ EnvelopeFields \subseteq DOMAIN envelope
       /\ envelope.success \in BOOLEAN
       /\ envelope # NoEnvelope

\* an agent returned a value that is no dict, and process_command's except
\* branch answered
C1_Witness ==
  /\ pc = "returned"
  /\ calls # <<>>
  /\ ~ state.agent_response.isdict
  /\ envelope.intent = "error"

\* C2: in the returned envelope success is false if and only if a pipeline
\* error occurred or the agent or workflow result reported success false.
C2_SuccessIffNoFailure ==
  pc = "returned" =>
    (envelope.success = FALSE
       <=> \/ Truthy(envelope.error)
           \/ /\ state.agent_response.isdict
              /\ "success" \in DOMAIN state.agent_response.d
              /\ state.agent_response.d.success = FALSE)

\* C3: execute_workflow dispatches the tasks of the plan in list order, each
\* once, up to and including the first task that fails (all of them when none
\* fails): no task is skipped, reordered or retried, and none is dispatched
\* after a failed one. A task fails when its result has no true success; a
\* call that raises ends the run in the same way.
C3_DispatchInListOrder ==
  wf.tasks # <<>> =>
    /\ Len(calls) <= Len(wf.tasks)
    /\ Len(wf.task_results) \in {Len(calls), Len(calls) - 1}
    /\ \A j \in 1..Len(calls) :
         /\ calls[j].name = wf.tasks[j].agent
         /\ calls[j].method = "process_command"
         /\ IsPrefix(wf.tasks[j].input, calls[j].input)
    /\ \A j \in 1..Len(wf.task_results) :
         /\ wf.task_results[j].task_index = j - 1
         /\ wf.task_results[j].agent = wf.tasks[j].agent
    /\ \A j \in 1..(Len(calls) - 1) : RecordSucceeded(wf.task_results[j])
    /\ pc = "execute_workflow" =>
         /\ Len(calls) = wf.i
         /\ Len(wf.task_results) = wf.i
         /\ wf.i < Len(wf.tasks)
    /\ Routed =>
         \/ /\ Len(calls) = Len(wf.tasks)
            /\ Len(wf.task_results) = Len(calls)
         \/ Len(wf.task_results) < Len(calls)
         \/ ~ RecordSucceeded(wf.task_results[Len(calls)])

\* a 2-task plan stopped after its first task, whose result reported failure
C3_Witness ==
  /\ pc = "returned"
  /\ Len(wf.tasks) = 2
  /\ Len(calls) = 1
  /\ Len(wf.task_results) = 1
  /\ RecordReportedFailure(wf.task_results[1])

\* a 2-task plan whose first task succeeded and whose second task's agent
\* returned success false
TwoTaskAbort ==
  /\ Routed
  /\ Len(wf.tasks) = 2
  /\ Len(wf.task_results) = 2
  /\ RecordSucceeded(wf.task_results[1])
  /\ RecordReportedFailure(wf.task_results[2])

\* C4 as stated: for a 2-task plan whose task 1 succeeds and whose task 2
\* returns success false, execute_workflow returns success false,
\* completed_tasks = 1 and a task_results list of length 1.
C4_AsStated ==
  TwoTaskAbort =>
    /\ state.agent_response.d.success = FALSE
    /\ Get(state.agent_response.d, "completed_tasks", -1) = 1
    /\ Len(Get(state.agent_response.d, "task_results", <<>>)) = 1

\* C4 amended: for a 2-task plan whose task 1 succeeds and whose task 2
\* returns success false, execute_workflow returns success false,
\* completed_tasks = 1 and a task_results list of length 2: the record of
\* task 1 and the record of the failed task 2.
C4_AbortOnFailure ==
  TwoTaskAbort =>
    /\ state.agent_response.isdict
    /\ state.agent_response.d.success = FALSE
    /\ Get(state.agent_response.d, "completed_tasks", -1) = 1
    /\ Len(Get(state.agent_response.d, "task_results", <<>>)) = 2
    /\ Get(state.agent_response.d, "task_results", <<>>) = wf.task_results
    /\ RecordReportedFailure(wf.task_results[2])

C4_Witness ==
  /\ pc = "returned"
  /\ TwoTaskAbort
  /\ Len(calls) = 2

\* C5: data threading: when task 1 declares extract file_path or
\* screenshot_path and its agent returns success true with a path in the
\* result field of that name, and task 2 declares use_previous with the same
\* slot, the input dispatched to task 2 contains exactly that path.
C5_DataThreading ==
  ( /\ Len(wf.tasks) >= 2
    /\ Len(calls) >= 2
    /\ wf.tasks[1].extract \in {"file_path", "screenshot_path"}
    /\ wf.tasks[2].use_previous = wf.tasks[1].extract
    /\ RecordSucceeded(wf.task_results[1])
    /\ wf.tasks[1].extract \in DOMAIN wf.task_results[1].result.d
    /\ wf.task_results[1].result.d[wf.tasks[1].extract].t = "str" )
  => calls[2].input
       = wf.tasks[2].input \o <<" ">>
           \o wf.task_results[1].result.d[wf.tasks[1].extract].v

\* C6: within one process_command the stages run in the order ai_enhance,
\* detect_intent, route_to_agent, generate_response, each at most once; no
\* agent is invoked before classification has finished; and classification
\* works on the output of normalization.
C6_StageOrder ==
  /\ IsPrefix(stages, StageOrder)
  /\ pc = "ai_enhance" => stages = <<>>
  /\ pc = "detect_intent" => Len(stages) = 1
  /\ pc = "route_to_agent" => Len(stages) = 2
  /\ pc \in {"execute_workflow", "generate_response"} => Len(stages) = 3
  /\ pc \in {"return", "returned"} => Len(stages) = 4
  /\ calls # <<>> => Len(stages) >= 3
  /\ Len(stages) >= 1 => state.user_input = state.enhanced_input
  /\ (pc = "route_to_agent" /\ ~ Truthy(state.error)) =>
       LET rule == keyword_intent(state.enhanced_input)
       IN IF rule # NoRule
          THEN state.detected_intent = rule
          ELSE llm_calls[Len(llm_calls)].site = "detect_intent"

\* a command whose rewrite differs from it went through the four stages and
\* reached an agent
C6_Witness ==
  /\ pc = "returned"
  /\ stages = StageOrder
  /\ calls # <<>>
  /\ state.enhanced_input # state.original_input
  /\ keyword_intent(state.enhanced_input) # keyword_intent(state.original_input)

\* C7: if classification raises, no agent is invoked, no workflow is planned
\* or executed, and process_command returns an envelope with success false
\* and a system-error message.
C7_ClassificationFailure ==
  ClassificationRaised =>
    /\ calls = <<>>
    /\ wf = NoWorkflow
    /\ log_calls = 0
    /\ Len(llm_calls) = 2
    /\ pc # "execute_workflow"
    /\ state.agent_response = EmptyDictValue
    /\ pc = "returned" =>
         /\ envelope.success = FALSE
         /\ envelope.message
              = <<"System Error: ", "Error in intent detection: ", LlmDown>>
         /\ envelope.error = <<"Error in intent detection: ", LlmDown>>

C7_Witness ==
  /\ pc = "returned"
  /\ ClassificationRaised
  /\ stages = StageOrder

C9_RegisteredIsRouted ==
  ( /\ Routed
    /\ ~ ClassificationRaised
    /\ state.agent_name \in DOMAIN agents
    /\ state.agent_name \notin {"multi_task", "multi_agent"} )
  => /\ Len(calls) = 1
     /\ calls[1].name = state.agent_name
     /\ calls[1].input = state.enhanced_input
     /\ log_calls = 0

\* the outage is limited to the normalization call: no other LLM call raised,
\* and no agent raised or returned a value that is no dict
OutageLimited ==
  /\ \A k \in 2..Len(llm_calls) : ~ llm_calls[k].raised
  /\ state.agent_response.isdict
  /\ state.error # <<"Error routing to agent: ", AgentBoom>>

\* C10: if the LLM call of normalization raises, enhanced_input equals
\* original_input, no pipeline error is recorded, classification and dispatch
\* run on the original text, and, with the outage limited to that call,
\* process_command returns a non-error envelope with enhanced_input equal to
\* original_input and was_enhanced false.
C10_NormalizationOutage ==
  NormalizationRaised =>
    /\ state.enhanced_input = state.original_input
    /\ state.original_input = Strip(command)
    /\ state.user_input = state.original_input
    /\ pc = "detect_intent" => state.error = NoneMsg
    /\ pc = "returned" =>
         /\ stages = StageOrder
         /\ envelope.enhanced_input = envelope.original_input
         /\ envelope.was_enhanced = FALSE
         /\ OutageLimited =>
              /\ envelope.error = NoneMsg
              /\ envelope.success = TRUE
              /\ envelope.intent = state.detected_intent
              /\ state.detected_intent # ""
              /\ envelope.original_input = Strip(command)

C10_Witness ==
  /\ pc = "returned"
  /\ NormalizationRaised
  /\ OutageLimited
  /\ calls # <<>>
  /\ command # <<>>
  /\ envelope.was_enhanced = FALSE

(* C11: when the LLM service is down (every LLM call of the command raised)    *)
(* and no heuristic of the classifier matches the command, classification      *)
(* ends with the intent conversation and without a pipeline error.             *)
C11_FallbackToConversation ==
  (/\ Len(stages) = 2
   /\ keyword_intent(state.user_input) = NoRule
   /\ \A k \in DOMAIN llm_calls : llm_calls[k].raised)
    => /\ state.detected_intent = "conversation"
       /\ ~ Truthy(state.error)

(* C12: for every input of the normalization (the command as process_command   *)
(* hands it over) and every text the LLM returns, the enhanced command is      *)
(* between 3 characters and 3 times the input's length, or it is the input.    *)
C12_LengthBounds ==
  Len(stages) >= 1 =>
    \/ /\ 3 <= Len(state.enhanced_input)
       /\ Len(state.enhanced_input) <= 3 * Len(state.original_input)
    \/ state.enhanced_input = state.original_input

\* a rewrite was accepted that is within one character of the upper limit
C12_Witness ==
  /\ Len(stages) >= 1
  /\ state.enhanced_input # state.original_input
  /\ ~ llm_calls[1].raised
  /\ Len(state.enhanced_input) + 1 >= 3 * Len(state.original_input)

(* C13: after normalization enhanced_input is never empty, whatever command    *)
(* process_command was given (the empty and the blank ones included) and       *)
(* whatever the LLM did.                                                       *)
C13_EnhancedNonEmpty ==
  Len(stages) >= 1 => state.enhanced_input # <<>>

(* C14: whenever detect_multi_task holds of the command the classifier gets,   *)
(* the intent is multi_task, whatever keywords of other agents the command     *)
(* contains, and the LLM fallback is not called.                               *)
C14_MultiTaskFirst ==
  (Len(stages) >= 2 /\ detect_multi_task(state.user_input)) =>
    /\ state.detected_intent = "multi_task"
    /\ state.agent_name = "multi_task"
    /\ \A k \in DOMAIN llm_calls : llm_calls[k].site # "detect_intent"
    /\ Len(stages) = 2 => ~ Truthy(state.error)

\* a multi-task command that the system-control rule would have claimed
C14_Witness ==
  /\ Len(stages) >= 2
  /\ detect_multi_task(state.user_input)
  /\ cascade_rules(state.user_input)[3].fires
  /\ state.detected_intent = "multi_task"

\* the Intent vocabulary of the specification
IntentVocabulary ==
  {"whatsapp", "email", "calendar", "phone", "payment", "app_launcher", "websearch",
   "task", "screenshot", "system_control", "filesearch", "conversation", "multi_task",
   "multi_agent"}

(* C15: the intent process_command reports is always in the closed vocabulary; *)
(* classification sets it once and no later step changes it; a token of the    *)
(* LLM fallback that names no agent and is not multi_agent becomes             *)
(* conversation.                                                               *)
C15_ClosedVocabulary ==
  /\ [](pc = "returned" => envelope.intent \in IntentVocabulary)
  /\ [](pc = "returned" /\ stages = StageOrder => envelope.intent = state.detected_intent)
  /\ [](\A k \in DOMAIN llm_calls :
          (llm_calls[k].site = "detect_intent" /\ ~ llm_calls[k].raised)
            => state.detected_intent \in (DOMAIN agents) \cup {"multi_agent"})
  /\ [][(pc \in {"route_to_agent", "execute_workflow", "generate_response"}
           => (state'.detected_intent = state.detected_intent))]_vars

\* the classified command contains a system-control phrase and a file keyword
SystemControlAndFile ==
  /\ Len(stages) >= 2
  /\ AnyIn(system_control_keywords, Lower(state.user_input))
  /\ \/ AnyIn(file_keywords, Lower(state.user_input))
     \/ AnyIn(file_context, Lower(state.user_input))

(* C16 as stated: every command with a system-control phrase and a file        *)
(* keyword is classified as system_control (and so never as filesearch).       *)
C16_AsStated ==
  SystemControlAndFile => state.detected_intent = "system_control"

(* C16, amended: a command with a system-control phrase and a file keyword is  *)
(* never classified as filesearch; it is classified as system_control unless   *)
(* detect_multi_task holds of it (then multi_task) or it is an information     *)
(* question without a file-context word (then conversation); the LLM fallback  *)
(* is not called.                                                              *)
C16_SystemControlBeforeFiles ==
  SystemControlAndFile =>
    /\ state.detected_intent # "filesearch"
    /\ state.detected_intent =
         IF detect_multi_task(state.user_input) THEN "multi_task"
         ELSE IF /\ AnyIn(information_questions, Lower(state.user_input))
                 /\ ~ AnyIn(file_context, Lower(state.user_input))
                 /\ ~ AnyIn(file_extensions, Lower(state.user_input))
              THEN "conversation"
              ELSE "system_control"
    /\ \A k \in DOMAIN llm_calls : llm_calls[k].site # "detect_intent"

\* a command the file-operation rule would have claimed went to system_control
C16_Witness ==
  /\ SystemControlAndFile
  /\ cascade_rules(state.user_input)[14].fires
  /\ state.detected_intent = "system_control"

\* the classified command contains a WhatsApp keyword and a calendar keyword
WhatsAppAndCalendar ==
  /\ Len(stages) >= 2
  /\ AnyIn(whatsapp_keywords, Lower(state.user_input))
  /\ AnyIn(calendar_keywords, Lower(state.user_input))

(* C17: a command with a WhatsApp keyword and a calendar keyword is never      *)
(* classified as calendar: no keyword rule gives calendar, and the LLM         *)
(* fallback, which could, is not reached.                                      *)
C17_NeverCalendar ==
  WhatsAppAndCalendar =>
    /\ state.detected_intent # "calendar"
    /\ state.agent_name # "calendar"
    /\ \A k \in DOMAIN llm_calls : llm_calls[k].site # "detect_intent"

\* such a command that the WhatsApp rule did not claim
C17_Witness ==
  /\ WhatsAppAndCalendar
  /\ ~ cascade_rules(state.user_input)[1].fires
  /\ ~ cascade_rules(state.user_input)[7].fires
  /\ state.detected_intent = "conversation"

(* C18: no recipient extraction yields one of to, for, with, about, from, the, *)
(* a, an: neither a task of the plan parse_workflow builds nor a WhatsApp      *)
(* command the legacy multi-agent handler builds has such a word as contact.   *)
C18_RecipientGuard ==
  \A j \in DOMAIN invalid_recipients :
    LET to_whatsapp == <<"s","e","n","d"," ","w","h","a","t","s","a","p","p"," ","t","o"," ">> \o invalid_recipients[j]
        to_email == <<"s","e","n","d"," ","e","m","a","i","l"," ","t","o"," ">> \o invalid_recipients[j]
    IN /\ \A k \in DOMAIN wf.tasks :
            Lower(wf.tasks[k].input) \notin {to_whatsapp, to_email}
       /\ state.agent_name = "multi_agent" =>
            \A k \in DOMAIN calls :
              /\ Lower(calls[k].input) # to_whatsapp
              /\ ~ StartsWith(Lower(calls[k].input), to_whatsapp \o <<":"," ">>)

(* C19: for "find ownership document and send to jay on whatsapp"              *)
(* detect_multi_task holds and parse_workflow yields exactly two tasks, in     *)
(* this order: filesearch extracting file_path, then whatsapp using file_path  *)
(* with an input that names jay.                                               *)
C19_FileThenWhatsApp ==
  (/\ Len(stages) >= 3
   /\ state.user_input = <<"f","i","n","d"," ","o","w","n","e","r","s","h","i","p"," ","d","o","c","u","m","e","n","t"," ","a","n","d"," ","s","e","n","d"," ","t","o"," ","j","a","y"," ","o","n"," ","w","h","a","t","s","a","p","p">>)
    => /\ detect_multi_task(state.user_input)
       /\ state.detected_intent = "multi_task"
       /\ Len(wf.tasks) = 2
       /\ wf.tasks[1].agent = "filesearch"
       /\ wf.tasks[1].extract = "file_path"
       /\ wf.tasks[2].agent = "whatsapp"
       /\ wf.tasks[2].use_previous = "file_path"
       /\ Contains(wf.tasks[2].input, <<"j","a","y">>)

(* C20: when planning yields no task, execute_workflow calls no agent and      *)
(* returns success false with the message 'Could not parse multi-task          *)
(* workflow', and process_command returns that message with success false.     *)
C20_Unplannable ==
  (/\ Len(stages) >= 3
   /\ state.detected_intent = "multi_task"
   /\ parse_workflow(state.user_input) = <<>>)
    => /\ calls = <<>>
       /\ state.agent_response = Value(Returns(could_not_parse))
       /\ pc = "returned" =>
            /\ envelope.message = could_not_parse.message
            /\ envelope.success = FALSE

(* C21: the registry is append-only: no step, add_agent included, removes a    *)
(* registered name or makes it map to another agent object.                    *)
C21_AppendOnly ==
  [][\A name \in DOMAIN agents :
       name \in DOMAIN agents' /\ agents'[name] = agents[name]]_vars

(* C23: when the classified command has keywords of two or more of the agent   *)
(* categories filesearch, whatsapp, email, screenshot, phone, detect_multi_task *)
(* holds of it and of every command got from it by adding, in front or behind, *)
(* a keyword of a further category.                                            *)
C23_MoreKeywordsStayMultiTask ==
  LET cmd == state.user_input
      present == detected_agents(Lower(cmd))
  IN (Len(stages) >= 2 /\ Cardinality(present) >= 2) =>
       /\ detect_multi_task(cmd)
       /\ state.detected_intent = "multi_task"
       /\ \A a \in (DOMAIN agent_keywords) \ present :
            \A k \in DOMAIN agent_keywords[a] :
              /\ detect_multi_task(cmd \o <<" ">> \o agent_keywords[a][k])
              /\ detect_multi_task(agent_keywords[a][k] \o <<" ">> \o cmd)

\* a command that is multi-task by its two categories only, and one with three
C23_Witness ==
  /\ Len(stages) >= 2
  /\ state.detected_intent = "multi_task"
  /\ Cardinality(detected_agents(Lower(state.user_input))) = 3
  /\ \A k \in DOMAIN multi_task_patterns :
       ~ Search(multi_task_patterns[k], Lower(state.user_input))

(* C24: for every command of the screenshot-then-communication shape the plan  *)
(* is the screenshot task extracting screenshot_path followed by an email or   *)
(* whatsapp task using screenshot_path, the agent being the one whose keyword  *)
(* the command has; the plan is never the screenshot task alone.               *)
C24_ScreenshotThenSend ==
  LET cmd == Lower(state.user_input)
  IN (/\ Len(stages) >= 3
      /\ state.detected_intent = "multi_task"
      /\ ~ Search(file_send_pattern, cmd)
      /\ Search(screenshot_pattern, cmd))
       => /\ Len(wf.tasks) = 2
          /\ wf.tasks[1].agent = "screenshot"
          /\ wf.tasks[1].extract = "screenshot_path"
          /\ wf.tasks[2].agent \in {"email", "whatsapp"}
          /\ wf.tasks[2].agent = "email" => Contains(cmd, <<"e","m","a","i","l">>)
          /\ wf.tasks[2].agent = "whatsapp" => Contains(cmd, <<"w","h","a","t","s","a","p","p">>)
          /\ wf.tasks[2].use_previous = "screenshot_path"

(* C30: every non-empty plan is well-formed for data threading: a task that    *)
(* uses the slot s is preceded in the plan by a task that extracts s (also     *)
(* when the command is capitalised).                                           *)
C30_PlanWellFormed ==
  \A k \in DOMAIN wf.tasks :
    wf.tasks[k].use_previous # "" =>
      \E j \in 1..(k - 1) : wf.tasks[j].extract = wf.tasks[k].use_previous

\* slot s was filled by a task before task k: the task declared s in extract
\* and its record has success true
FilledBefore(s, k) ==
  \E j \in 1..(k - 1) :
    /\ j \in DOMAIN wf.task_results
    /\ wf.tasks[j].extract = s
    /\ RecordSucceeded(wf.task_results[j])

(* C25: during execute_workflow a slot of shared_data is written only by a     *)
(* task that declared the slot in extract and whose result has success true    *)
(* (a failed task and a task without extract leave shared_data as it is), and  *)
(* the input a task is dispatched with is its own input, followed by the value *)
(* of its use_previous slot exactly when an earlier task filled that slot.     *)
C25_SharedDataFrame ==
  /\ \A s \in DOMAIN wf.shared_data : FilledBefore(s, Len(wf.tasks) + 1)
  /\ state.agent_name = "multi_task" =>
       \A k \in DOMAIN calls :
         calls[k].input =
           IF FilledBefore(wf.tasks[k].use_previous, k)
           THEN wf.tasks[k].input \o <<" ">> \o Fmt(wf.shared_data[wf.tasks[k].use_previous])
           ELSE wf.tasks[k].input

\* a task that declared a slot has failed and execute_workflow has returned
\* with the map still empty
C25_Witness ==
  /\ Len(wf.task_results) = 1
  /\ wf.tasks[1].extract # ""
  /\ RecordReportedFailure(wf.task_results[1])
  /\ wf.shared_data = EmptyDict
  /\ pc = "generate_response"

(* C26: when an agent's call raises in the middle of a workflow, no further    *)
(* task is dispatched and execute_workflow returns success false with the      *)
(* partial result: completed_tasks, the number of tasks that succeeded, and    *)
(* task_results, the records of those tasks.                                   *)
C26_RaiseKeepsPartial ==
  (/\ Routed
   /\ state.agent_name = "multi_task"
   /\ Len(wf.task_results) < Len(calls))
    => /\ state.agent_response.isdict
       /\ ~ Succeeded(state.agent_response.d)
       /\ "completed_tasks" \in DOMAIN state.agent_response.d
       /\ "task_results" \in DOMAIN state.agent_response.d
       /\ state.agent_response.d.completed_tasks = Len(wf.task_results)
       /\ state.agent_response.d.task_results = wf.task_results

(* C29: whenever execute_workflow returns success true, task_results holds     *)
(* exactly one record per planned task, in list order, each with a true        *)
(* success, so its length is tasks_count; no task was skipped.                 *)
C29_SuccessMeansAllRan ==
  (/\ Routed
   /\ state.agent_name = "multi_task"
   /\ state.agent_response.isdict
   /\ Succeeded(state.agent_response.d))
    => LET d == state.agent_response.d
       IN /\ d.tasks_count = Len(wf.tasks)
          /\ Len(d.task_results) = d.tasks_count
          /\ d.task_results = wf.task_results
          /\ Len(calls) = Len(wf.tasks)
          /\ \A k \in DOMAIN d.task_results :
               /\ d.task_results[k].task_index = k - 1
               /\ d.task_results[k].agent = wf.tasks[k].agent
               /\ calls[k].name = wf.tasks[k].agent
               /\ RecordSucceeded(d.task_results[k])

\* a two-task workflow reported as successful
C29_Witness ==
  /\ pc = "returned"
  /\ state.agent_name = "multi_task"
  /\ Succeeded(state.agent_response.d)
  /\ Len(wf.tasks) = 2
  /\ envelope.agent_response.d.tasks_count = 2

\* C28: adding an agent is serialized against a call in flight: while a
\* process_command call is between the start of classification and the end of
\* routing, no step changes the registry that call reads
C28_AddAgentSerialized ==
  [][(pc \in {"detect_intent", "route_to_agent", "execute_workflow"}
        => agents' = agents)]_vars

\* C27: the feature-request log is append-only: no step of any log_request
\* call, overlapping or not, with the load failing or not, removes or changes an
\* entry already in the log, and the log holds exactly one entry per call that
\* returned True
C27_LogAppendOnly ==
  /\ [][\A k \in DOMAIN feature_log :
          k \in DOMAIN feature_log' /\ feature_log'[k] = feature_log[k]]_vars
  /\ [](Len(feature_log) =
          Cardinality({t \in Threads : threads[t].pc = "returned" /\ threads[t].returned}))

\* the values run `my` itself extracted into slot s before its task k
OwnSlotValues(my, s, k) ==
  {Get(my.task_results[j].result.d, s, PyStr(<<>>)) :
     j \in {j \in 1..(k - 1) : /\ j \in DOMAIN my.task_results
                               /\ my.tasks[j].extract = s
                               /\ RecordSucceeded(my.task_results[j])}}

\* C22: interleaved execute_workflow runs keep to their own SharedData map:
\* every slot of a run's map holds a value a task of that same run returned,
\* every input a run dispatched is its task's planned input, followed by the
\* slot value only when that same run filled the slot earlier, and a run
\* starts with an empty map whatever earlier or concurrent runs wrote
C22_RunsKeepTheirOwnSlots ==
  \A t \in Threads :
    "tasks" \in DOMAIN threads[t] =>
      LET my == threads[t]
      IN /\ \A s \in DOMAIN my.shared_data :
              my.shared_data[s] \in OwnSlotValues(my, s, Len(my.tasks) + 1)
         /\ (my.i = 0 /\ my.task_results = <<>>) => my.shared_data = EmptyDict
         /\ \A k \in DOMAIN my.inputs :
              LET s == my.tasks[k].use_previous
                  own == IF s = "" THEN {} ELSE OwnSlotValues(my, s, k)
              IN my.inputs[k] \in
                   IF own = {} THEN {my.tasks[k].input}
                   ELSE {my.tasks[k].input \o <<" ">> \o Fmt(v) : v \in own}

\* two runs are past their file search with different files found, each has
\* its own file in its map, and a third run, whose plan only uses the slot,
\* dispatched its message with no file while the two maps were filled
C22_Witness ==
  /\ threads[1].pc = "execute_workflow" /\ threads[1].i = 1
  /\ threads[2].pc = "execute_workflow" /\ threads[2].i = 1
  /\ threads[1].shared_data = [file_path |-> PyStr(PathA)]
  /\ threads[2].shared_data = [file_path |-> PyStr(PathB)]
  /\ threads[3].pc = "returned"
  /\ "tasks" \in DOMAIN threads[3]
  /\ Len(threads[3].tasks) = 1
  /\ threads[3].tasks[1].use_previous = "file_path"
  /\ threads[3].inputs = <<threads[3].tasks[1].input>>
  /\ Len(threads[3].task_results) = 1
  /\ RecordSucceeded(threads[3].task_results[1])

====
